---- MODULE Spec2Model ----
(***************************************************************************)
(* Pipeline runner of the CI/CD backend (internal/api/runner.go): one run  *)
(* of runPipelineLogic against the database, the docker executor and the   *)
(* workspace directories on disk.                                          *)
(***************************************************************************)
EXTENDS Integers, Sequences, FiniteSets, TLC

\* ---------------------------------------------------------------- bounds
MaxJobs == 2
MaxStages == 2
MaxPrior == 1

JobNames == 1..MaxJobs
\* jobs.id: the pre-creation inserts one record per listing of the job's
\* stage in `stages:`; the record of job j for the k-th listing is
\* j + (k-1)*MaxJobs, so that the first record of a job carries its name
JobIDs == 1..(MaxJobs * MaxStages)
\* jobs.name of a record
JobOf(id) == ((id - 1) % MaxJobs) + 1
\* the listing of its stage a record was inserted for
Listing(id) == ((id - 1) \div MaxJobs) + 1
\* stage names a pipeline file lists under `stages:`
StageNames == 1..MaxStages
\* a stage name some job refers to although `stages:` does not list it
Unlisted == MaxStages + 1
JobStages == StageNames \cup {Unlisted}

\* pipelines.id of the pipelines created before the run, and of the run
PriorPipelines == 1..MaxPrior
PipelineID == MaxPrior + 1
Pipelines == PriorPipelines \cup {PipelineID}
\* projects.id of the project of the run, and of another project
ProjectID == 1
Projects == {ProjectID, 2}

\* exit codes a job container is observed to end with
ExitCodes == {0, 3}
\* a nil *int, a NULL exit_code, a wait that reported no status
Nil == <<>>

\* the two directories of a run under /tmp/cicd-workspaces
WorkspaceDir == "workspaceDir"
RollbackDir == "rollbackDir"

VARIABLES
  pc,               \* position of the run inside runPipelineLogic
  cfgStages,        \* config.Stages: the ordered stage names
  cfgJobs,          \* config.Jobs: job name -> stage it declares
  db,               \* s.db != nil: the server has a database
  via,              \* the handler that asked for the run: "manual" or "webhook"
  aborted,          \* the caller has given up on the run while a job executed
  pipelineProject,  \* pipelines.project_id of each pipeline
  pipelineStatus,   \* pipelines.status by id
  finishedAt,       \* pipelines.finished_at is set, by id
  jobStatus,        \* jobs.status by jobs.id ("none": no record)
  jobExit,          \* jobs.exit_code by jobs.id, <<c>> or Nil
  deployStatus,     \* deployments.status of the run's pipeline ("none": no record)
  disk,             \* the workspace directories that exist on disk
  deferred,         \* directories with a registered `defer git.Cleanup`
  stageIdx,         \* index into config.Stages of the stage being run
  visited,          \* jobs the range over config.Jobs has already yielded
  curJob,           \* the job being run (0: none)
  jobID,            \* local jobID: the record GetJobByName returned (0: none)
  pipelineSuccess,  \* local pipelineSuccess
  deploymentID,     \* local deploymentID is > 0
  deployErr,        \* the first deployToEnv returned an error
  rollbackCommit,   \* pipeline whose commit the rollback re-deploys (0: none)
  rollbackSuccess,  \* local rollbackSuccess
  pullResult,       \* what docker.PullImage returned, by job ("none": no pull)
  containers,       \* jobs whose container was created
  observed,         \* exit code ContainerWait reported, by job (Nil: none)
  clock,            \* time.Now().Unix()
  runPhase,         \* concurrent runs: "idle", "running" or "done", by run
  runRepo,          \* params.RepoName of each run
  runCommit,        \* params.CommitHash of each run
  runDir,           \* workspaceDir of each run (Nil before it starts)
  dirs,             \* the directories under /tmp/cicd-workspaces on disk
  logPc,            \* position inside collectLogs / the deployment logger
  scanned,          \* number of lines scanner.Scan has yielded
  readLines,        \* the lines appended to logBatch so far, in read order
  logBatch,         \* local logBatch of collectLogs
  jobLogs,          \* job_logs.content of the job, in insertion order
  deployLogs,       \* deployment_logs.content of the pipeline, in insertion order
  ovPc,             \* position inside deployRemote's override generation
  composeSvc,       \* the compose file: service name -> what its body holds
  ovRepoName,       \* params.RepoName of the remote deployment
  ovTag,            \* params.CommitHash of the remote deployment
  overrideContent,  \* docker-compose.override.yml as written (Nil: not written)
  reparsed,         \* the override read back: service name -> image
  dcPc,             \* position inside DockerExecutor.DeployCompose
  backupImages,     \* len(backupImages) > 0: the snapshot tagged an image
  upCalls,          \* number of `compose up -d --build` runs
  upConflict,       \* the failed compose up reported `already in use by container`
  rollbackRuns,     \* number of calls of performRollback
  restored,         \* number of runs of restoreBackup
  dcErr,            \* the error DeployCompose returned ("none": nil)
  elapsed,          \* seconds since checkDeploymentHealth set its deadline
  polls,            \* number of health polls made
  expected,         \* expectedServices of the health check
  psInfo,           \* what the last `compose ps` reported, by expected service
  psExtra,          \* the last `compose ps` listed a service that is not expected
  ownerID,          \* project.OwnerID of the project the requests name
  projectVariables, \* keys of the project's rows in table variables
  userID,           \* user id the last request carried in its context, 0 when none
  reqMethod,        \* method of the last request: "POST", "DELETE" or "none"
  reqKey,           \* variable key the last request named
  respStatus,       \* HTTP status the last request was answered with, 0 before any
  rmPc,             \* position inside deployRemote
  rmSteps,          \* the steps deployRemote has attempted so far, in order
  rmErr,            \* the error deployRemote returns: the step that failed, or "none"
  rmDropped,        \* steps whose error was returned by the SSH client and not looked at
  loggedIn,         \* docker login to the registry has succeeded
  built,            \* compose build has succeeded
  pushed,           \* compose push has sent the images to the registry
  remoteDir,        \* the directory deploy/<project> exists on the remote host
  remoteFiles,      \* per file of the remote directory: "absent", "stale" (earlier run) or "fresh"
  scriptExec,       \* deploy.sh on the remote host is executable
  remoteRun,        \* what the remote deploy script brought up: "none", "stale" or "fresh"
  rbPc,             \* position of runPipelineLogic around the failed deployment and its rollback
  rbFlow,           \* the flow deployToEnv takes for the project: "local" or "remote"
  rbLog,            \* the pipeline's deployment log: per line, what wrote it
  rbPiped,          \* per deployment, lines of its remote command not yet read by the scanner goroutines
  rbWritten,        \* per deployment, the number of lines it has produced
  shPc,             \* position inside the job's container: sh -c cmdString
  commands,         \* job.Script: the entries of the job's script
  cmdString,        \* the command line handed to sh -c, as shell words
  shIdx,            \* index in cmdString of the next command of the list
  shExit,           \* $?: exit status of the last command that ran
  shRan,            \* indexes in cmdString of the commands that ran
  rgPc,             \* position of each run inside buildAndPushImages
  authConfig,       \* DockerExecutor.authConfig: the user of the last API login
  dockerConfig,     \* user the docker CLI has stored for the default registry
  pushedAs          \* user each run's compose push went out with

vars == <<pc, cfgStages, cfgJobs, db, via, aborted, pipelineProject, pipelineStatus, finishedAt,
          jobStatus, jobExit,
          deployStatus, disk, deferred, stageIdx, visited, curJob, jobID, pipelineSuccess,
          deploymentID, deployErr, rollbackCommit, rollbackSuccess, pullResult,
          containers, observed,
          clock, runPhase, runRepo, runCommit, runDir, dirs,
          logPc, scanned, readLines, logBatch, jobLogs, deployLogs,
          ovPc, composeSvc, ovRepoName, ovTag, overrideContent, reparsed,
          dcPc, backupImages, upCalls, upConflict, rollbackRuns, restored, dcErr, elapsed, polls, expected, psInfo, psExtra,
          ownerID, projectVariables, userID, reqMethod, reqKey, respStatus,
          rmPc, rmSteps, rmErr, rmDropped, loggedIn, built, pushed, remoteDir, remoteFiles, scriptExec, remoteRun,
          rbPc, rbFlow, rbLog, rbPiped, rbWritten,
          shPc, commands, cmdString, shIdx, shExit, shRan,
          rgPc, authConfig, dockerConfig, pushedAs>>

cfgVars == <<cfgStages, cfgJobs, db, via, aborted, pipelineProject>>
dbVars == <<pipelineStatus, finishedAt, jobStatus, jobExit, deployStatus>>
loopVars == <<stageIdx, visited, curJob, jobID>>
dockerVars == <<pullResult, containers, observed>>
wsVars == <<clock, runPhase, runRepo, runCommit, runDir, dirs>>
runVars == <<pc, cfgStages, cfgJobs, db, via, aborted, pipelineProject, pipelineStatus,
             finishedAt, jobStatus, jobExit,
             deployStatus, disk, deferred, stageIdx, visited, curJob, jobID, pipelineSuccess,
             deploymentID, deployErr, rollbackCommit, rollbackSuccess, pullResult,
             containers, observed>>
deployVars == <<deploymentID, deployErr, rollbackCommit, rollbackSuccess>>
logVars == <<logPc, scanned, readLines, logBatch, jobLogs, deployLogs>>
rgVars == <<rgPc, authConfig, dockerConfig, pushedAs>>
shVars == <<shPc, commands, cmdString, shIdx, shExit, shRan>>
rbVars == <<rbPc, rbFlow, rbLog, rbPiped, rbWritten>>
rmVars == <<rmPc, rmSteps, rmErr, rmDropped, loggedIn, built, pushed, remoteDir, remoteFiles, scriptExec, remoteRun>>
pvVars == <<ownerID, projectVariables, userID, reqMethod, reqKey, respStatus>>
dcVars == <<dcPc, backupImages, upCalls, upConflict, rollbackRuns, restored, dcErr,
           elapsed, polls, expected, psInfo, psExtra>>
ovVars == <<ovPc, composeSvc, ovRepoName, ovTag, overrideContent, reparsed>>
\* what the steps of one part of the program leave alone
notRun == <<wsVars, logVars, ovVars, dcVars, pvVars, rmVars, rbVars, shVars, rgVars>>
notWs == <<runVars, logVars, ovVars, dcVars, pvVars, rmVars, rbVars, shVars, rgVars>>
notLog == <<runVars, wsVars, ovVars, dcVars, pvVars, rmVars, rbVars, shVars, rgVars>>
notLogRun == <<wsVars, ovVars, dcVars, pvVars, rmVars, rbVars, shVars, rgVars>>
logRunRest == <<pc, cfgVars, pipelineStatus, finishedAt, deployStatus, disk, deferred, loopVars,
               pipelineSuccess, deployVars, dockerVars>>
notOv == <<runVars, wsVars, logVars, dcVars, pvVars, rmVars, rbVars, shVars, rgVars>>
notDc == <<runVars, wsVars, logVars, ovVars, pvVars, rmVars, rbVars, shVars, rgVars>>
notPv == <<runVars, wsVars, logVars, ovVars, dcVars, rmVars, rbVars, shVars, rgVars>>
notRm == <<runVars, wsVars, logVars, ovVars, dcVars, pvVars, rbVars, shVars, rgVars>>
notRb == <<runVars, wsVars, logVars, ovVars, dcVars, pvVars, rmVars, shVars, rgVars>>
notSh == <<runVars, wsVars, logVars, ovVars, dcVars, pvVars, rmVars, rbVars, rgVars>>
notRg == <<runVars, wsVars, logVars, ovVars, dcVars, pvVars, rmVars, rbVars, shVars>>

\* ------------------------------------------------------------- helpers
Range(s) == {s[i] : i \in DOMAIN s}

\* config.Stages with every name listed once: sequences of distinct stage
\* names, at most MaxStages long
StageLists ==
  {s \in UNION {[1..n -> StageNames] : n \in 0..MaxStages} :
     \A i, k \in DOMAIN s : i # k => s[i] # s[k]}

\* config.Stages with a name listed twice (yaml.Unmarshal keeps both entries)
RelistedStages == {<<s, s>> : s \in StageNames}

Terminal == {"success", "failed", "cancelled"}

\* ------------------------------------------------------------ database
\* DB.UpdatePipelineStatus
UpdatePipelineStatus(id, status) ==
  /\ pipelineStatus' = [pipelineStatus EXCEPT ![id] = status]
  /\ finishedAt' = [finishedAt EXCEPT ![id] = IF status \in Terminal THEN TRUE ELSE @]

\* DB.UpdateJobStatus: a nil exitCode is stored as 0 with a terminal status
UpdateJobStatus(id, status, exitCode) ==
  /\ jobStatus' = [jobStatus EXCEPT ![id] = status]
  /\ jobExit' = [jobExit EXCEPT ![id] =
                   IF status \in {"success", "failed"}
                   THEN (IF exitCode = Nil THEN <<0>> ELSE exitCode)
                   ELSE @]

\* runPipelineLogic: `if s.db != nil && params.PipelineID > 0` around
\* UpdatePipelineStatus (without a database params.PipelineID is 0)
setPipelineStatus(status) ==
  IF db THEN UpdatePipelineStatus(PipelineID, status)
  ELSE UNCHANGED <<pipelineStatus, finishedAt>>

\* executePipeline: `if s.db != nil && jobID > 0` around UpdateJobStatus
setJobStatus(status, exitCode) ==
  IF db /\ jobID > 0 THEN UpdateJobStatus(jobID, status, exitCode)
  ELSE UNCHANGED <<jobStatus, jobExit>>

\* DB.GetLastSuccessfulPipeline, had the query not named the project
GetLastSuccessfulPipelineOfAny(projectID) ==
  LET ok == {p \in Pipelines : pipelineStatus[p] = "success"}
  IN IF ok = {} THEN 0 ELSE CHOOSE p \in ok : \A q \in ok : q <= p

\* DB.GetLastSuccessfulPipeline: highest id of the project with status
\* success, 0 when none
GetLastSuccessfulPipeline(projectID) ==
  LET ok == {p \in Pipelines : pipelineProject[p] = projectID /\ pipelineStatus[p] = "success"}
  IN IF ok = {} THEN 0 ELSE CHOOSE p \in ok : \A q \in ok : q <= p

\* ---------------------------------------------------------------- git
\* git.Clone: clone the branch into dir, then pin the commit
Clone(dir, outcome) ==
  IF outcome \in {"ok", "pinFailed"} THEN disk \cup {dir} ELSE disk

\* git.Cleanup: remove the directory
Cleanup(paths) == disk \ paths

\* ------------------------------------------------- concurrent workspaces
MaxClock == 2
MaxRuns == 2
RunIds == 1..MaxRuns
RepoNames == {"app", "api"}
\* a commit hash: its first 8 characters and the rest
CommitHashes == {<<"abc12345", "aa">>, <<"abc12345", "bb">>, <<"new11111", "aa">>}

\* params.CommitHash[:8]
Short(commit) == commit[1]

\* runPipelineLogic: the workspace path, <repoName>-<commit[:8]>-<unix seconds>
WorkspacePath(repo, commit, now) == <<repo, Short(commit), now>>

\* no run has been triggered yet
WsIdle ==
  /\ clock = 0
  /\ runPhase = [r \in RunIds |-> "idle"]
  /\ runRepo = [r \in RunIds |-> "app"]
  /\ runCommit = [r \in RunIds |-> <<"abc12345", "aa">>]
  /\ runDir = [r \in RunIds |-> Nil]
  /\ dirs = {}

\* ------------------------------------------------------------------ logs
MaxLineLen == 2
MaxScan == 11
MaxDeployLines == 2
\* collectLogs stores the lines in batches of 10
BatchSize == 10

\* the byte \x00
NUL == "x00"
Chars == {"a", NUL}
\* a line of a container's log stream, a line of a remote command's output,
\* the output of a compose command
RawLines == UNION {[1..n -> Chars] : n \in 0..MaxLineLen}

\* lines of a container's log stream as scanner.Text() yields them: empty,
\* NUL bytes only, without a NUL byte, with NUL bytes behind, in front of and
\* between other bytes
StreamLines ==
  {<<>>, <<NUL>>, <<"a">>, <<"a", NUL>>, <<NUL, "a", "a">>, <<"a", NUL, "a">>}

\* strings.ReplaceAll(line, "\x00", "")
ReplaceAll(line) == SelectSeq(line, LAMBDA c : c # NUL)

\* no log is being collected
LogIdle ==
  /\ logPc = "off"
  /\ scanned = 0
  /\ readLines = <<>>
  /\ logBatch = <<>>
  /\ jobLogs = <<>>
  /\ deployLogs = <<>>

\* ------------------------------------------------------- compose override
\* service names of a compose file, as sequences of characters, in the byte
\* order yaml.Marshal sorts map keys in
NameOrder == << <<"W">>, <<"m", " ", "a">>, <<"m", "-", "a">>, <<"w">> >>
ServiceNames == Range(NameOrder)
\* a service body: a mapping with a build key, with an image key, with
\* both, or no mapping at all; "absent": the file has no such service
Bodies == {"build", "image", "buildAndImage", "scalar"}
\* params.RepoName
ProjectNames == {<<"T", " ", "p">>, <<"t", "-", "p">>}
\* params.CommitHash
Tags == {<<"c1">>, <<"c2">>}
\* project.RegistryUser
RegistryUser == <<"u">>

\* strings.ReplaceAll(name, " ", "-")
ReplaceSpaces(name) == [i \in DOMAIN name |-> IF name[i] = " " THEN "-" ELSE name[i]]

\* strings.ToLower
ToLower(name) ==
  [i \in DOMAIN name |->
     IF name[i] = "W" THEN "w" ELSE IF name[i] = "T" THEN "t" ELSE name[i]]

\* yaml.Marshal of {services: {name: {image: ...}}}: one entry per key, the
\* keys sorted
Marshal(serviceConfig) ==
  LET keys == SelectSeq(NameOrder, LAMBDA n : n \in DOMAIN serviceConfig)
  IN [i \in DOMAIN keys |-> <<keys[i], serviceConfig[keys[i]]>>]

\* yaml.Unmarshal of the override, then servicesMap[name]["image"]
Unmarshal(doc) ==
  [n \in {doc[i][1] : i \in DOMAIN doc} |->
     doc[CHOOSE i \in DOMAIN doc : doc[i][1] = n][2]]

\* compose.ParseServices: the services whose body is a mapping that has a
\* build key
ParseServices == {n \in ServiceNames : composeSvc[n] \in {"build", "buildAndImage"}}

\* compose.GenerateOverride
GenerateOverride(services, registryUser, projectName, tag) ==
  LET cleanProject == ToLower(ReplaceSpaces(projectName))
      imageName(service) ==
        registryUser \o <<"/">> \o cleanProject \o <<"-">>
          \o ToLower(ReplaceSpaces(service)) \o <<":">> \o tag
  IN Marshal([service \in services |-> imageName(service)])

\* no remote deployment is generating an override
OvIdle ==
  /\ ovPc = "off"
  /\ composeSvc = [n \in ServiceNames |-> "absent"]
  /\ ovRepoName = <<>>
  /\ ovTag = <<>>
  /\ overrideContent = Nil
  /\ reparsed = <<>>

\* ------------------------------------------------------- local deployment
MaxServices == 2
\* the services `compose config --services` may list
HealthServices == 1..MaxServices
\* checkDeploymentHealth: timeout := 2 * time.Minute, in seconds
HealthTimeout == 120
\* checkDeploymentHealth: time.NewTicker(10 * time.Second), in seconds
TickSeconds == 10

\* State and Health of a service in `compose ps --all --format json`;
\* <<"missing", "">>: no line for the service
ServiceInfos ==
  {<<"running", "">>, <<"running", "healthy">>, <<"running", "starting">>,
   <<"running", "unhealthy">>, <<"exited", "">>, <<"dead", "">>, <<"created", "">>,
   <<"missing", "">>}

\* the orders in which `range expectedServices` may yield the services
Orders(S) ==
  {f \in [1..Cardinality(S) -> S] : \A i, k \in DOMAIN f : i # k => f[i] # f[k]}

\* checkDeploymentHealth: the loop over expectedServices, from the i-th
\* service of the order on
RECURSIVE CheckServices(_, _, _, _)
CheckServices(info, ord, i, allHealthy) ==
  IF i > Len(ord)
  THEN (IF allHealthy THEN "healthy" ELSE "continue")
  ELSE LET status == info[ord[i]]
       IN IF status[1] = "missing" THEN "continue"
          ELSE IF status[1] = "running"
          THEN (IF status[2] = "unhealthy" THEN "unhealthy"
                ELSE CheckServices(info, ord, i + 1, allHealthy /\ status[2] # "starting"))
          ELSE IF status[1] \in {"exited", "dead"} THEN "stopped"
          ELSE CheckServices(info, ord, i + 1, FALSE)

\* the loop over expectedServices, had it let a service that is still
\* starting count as healthy
RECURSIVE CheckServicesLax(_, _, _, _)
CheckServicesLax(info, ord, i, allHealthy) ==
  IF i > Len(ord)
  THEN (IF allHealthy THEN "healthy" ELSE "continue")
  ELSE LET status == info[ord[i]]
       IN IF status[1] = "missing" THEN "continue"
          ELSE IF status[1] = "running"
          THEN (IF status[2] = "unhealthy" THEN "unhealthy"
                ELSE CheckServicesLax(info, ord, i + 1, allHealthy))
          ELSE IF status[1] \in {"exited", "dead"} THEN "stopped"
          ELSE CheckServicesLax(info, ord, i + 1, FALSE)

PollResultsLax(info, extra) ==
  LET found == Cardinality({srv \in DOMAIN info : info[srv][1] # "missing"})
                 + (IF extra THEN 1 ELSE 0)
  IN IF found < Cardinality(DOMAIN info)
     THEN {"continue"}
     ELSE {CheckServicesLax(info, ord, 1, TRUE) : ord \in Orders(DOMAIN info)}

\* checkDeploymentHealth: what one poll can conclude from the ps output
PollResults(info, extra) ==
  LET found == Cardinality({srv \in DOMAIN info : info[srv][1] # "missing"})
                 + (IF extra THEN 1 ELSE 0)
  IN IF found < Cardinality(DOMAIN info)
     THEN {"continue"}
     ELSE {CheckServices(info, ord, 1, TRUE) : ord \in Orders(DOMAIN info)}

\* ---------------------------------------------------- remote deployment
\* the files executeRemoteSSH copies into the remote directory
RemoteFiles == {"compose", "override", "script"}

\* the steps of deployRemote in the order of the code
RemoteOrder == <<"override", "login", "build", "push", "ssh", "mkdir",
                 "compose", "override.yml", "script", "chmod", "deploy">>

\* no remote deployment is running
RmIdle ==
  /\ rmPc = "off"
  /\ rmSteps = <<>>
  /\ rmErr = "none"
  /\ rmDropped = {}
  /\ loggedIn = FALSE
  /\ built = FALSE
  /\ pushed = FALSE
  /\ remoteDir = FALSE
  /\ remoteFiles = [f \in RemoteFiles |-> "absent"]
  /\ scriptExec = FALSE
  /\ remoteRun = "none"

\* ------------------------------------------- the log around a rollback
MaxRbLines == 2

\* the two calls of deployToEnv in a run whose deployment fails
Deployments == {"attempt", "rollback"}

\* the line runPipelineLogic writes before the rollback deployment
RollbackStarted == "=== ROLLBACK STARTED ==="

\* no deployment of a run is under way
RbIdle ==
  /\ rbPc = "off"
  /\ rbFlow = "local"
  /\ rbLog = <<>>
  /\ rbPiped = [d \in Deployments |-> 0]
  /\ rbWritten = [d \in Deployments |-> 0]

\* --------------------------------------------------------- job scripts
\* a job's script holds at most MaxScript entries
MaxScript == 2

\* shell commands: one that exits 0, one that exits 1, one that exits 3
Cmds == {"ok", "err1", "err3"}
ExitStatus(c) == CASE c = "ok" -> 0 [] c = "err1" -> 1 [] c = "err3" -> 3

\* an entry of a script: a shell command line, here one command or an OR
\* list of two commands, as its sequence of shell words
Entries == {<<c>> : c \in Cmds} \cup {<<c, "||", d>> : c \in Cmds, d \in Cmds}

\* no job container is being run
ShIdle ==
  /\ shPc = "off"
  /\ commands = <<>>
  /\ cmdString = <<>>
  /\ shIdx = 0
  /\ shExit = 0
  /\ shRan = {}

\* ------------------------------------------------ registry credentials
\* no run is building or pushing images
RgIdle ==
  /\ rgPc = [r \in RunIds |-> "idle"]
  /\ authConfig = Nil
  /\ dockerConfig = Nil
  /\ pushedAs = [r \in RunIds |-> Nil]

\* ------------------------------------------------- project variables
MaxUsers == 2
MaxKeys == 3

\* user ids; 0 stands for a request that carries no valid token
Users == 1..MaxUsers
Callers == 0..MaxUsers
Keys == 1..MaxKeys

\* no request for the project's variables has been made
PvIdle ==
  /\ ownerID = 1
  /\ projectVariables = {}
  /\ userID = 0
  /\ reqMethod = "none"
  /\ reqKey = 0
  /\ respStatus = "none"

\* no local deployment is running
DcIdle ==
  /\ dcPc = "off"
  /\ backupImages = FALSE
  /\ upCalls = 0
  /\ upConflict = FALSE
  /\ rollbackRuns = 0
  /\ restored = 0
  /\ dcErr = "none"
  /\ elapsed = 0
  /\ polls = 0
  /\ expected = {}
  /\ psInfo = <<>>
  /\ psExtra = FALSE

\* ---------------------------------------------------------------- Init
\* the state after triggerPipeline; projects gives the project of every
\* pipeline of the database
InitOf(projects) ==
  /\ pc = "trigger"
  /\ cfgStages \in StageLists
  /\ cfgJobs \in [JobNames -> JobStages]
  /\ db = TRUE
  /\ via = "manual"
  /\ aborted = FALSE
  /\ pipelineProject = projects
  /\ pipelineStatus \in
       {f \in [Pipelines -> {"pending", "success", "failed"}] :
          /\ f[PipelineID] = "pending"
          /\ \A p \in PriorPipelines : f[p] # "pending"}
  /\ finishedAt = [p \in Pipelines |-> p # PipelineID]
  /\ jobStatus = [r \in JobIDs |-> "none"]
  /\ jobExit = [r \in JobIDs |-> Nil]
  /\ deployStatus = "none"
  /\ disk = {}
  /\ deferred = {}
  /\ stageIdx = 0
  /\ visited = {}
  /\ curJob = 0
  /\ jobID = 0
  /\ pipelineSuccess = FALSE
  /\ deploymentID = FALSE
  /\ deployErr = FALSE
  /\ rollbackCommit = 0
  /\ rollbackSuccess = FALSE
  /\ pullResult = [j \in JobNames |-> "none"]
  /\ containers = {}
  /\ observed = [j \in JobNames |-> Nil]
  /\ WsIdle
  /\ RgIdle
  /\ ShIdle
  /\ RbIdle
  /\ RmIdle
  /\ PvIdle
  /\ DcIdle
  /\ OvIdle
  /\ LogIdle

\* the state after triggerPipeline: a configuration has been read from the
\* pipeline file, the pipeline is pending, no job has a record; every
\* pipeline of the database belongs to the project of the run
Init == InitOf([p \in Pipelines |-> ProjectID])

\* ------------------------------------------------------------- actions
\* runPipelineFromManualTrigger: mark the pipeline running (the call is not
\* guarded: a nil s.db is dereferenced), enter the runner
runPipelineFromManualTrigger ==
  /\ pc = "trigger"
  /\ IF db
     THEN /\ UpdatePipelineStatus(PipelineID, "running")
          /\ pc' = "clone"
     ELSE /\ pc' = "panic"
          /\ UNCHANGED <<pipelineStatus, finishedAt>>
  /\ UNCHANGED <<notRun, cfgVars, jobStatus, jobExit, deployStatus, disk, deferred, loopVars,
                 pipelineSuccess, deployVars, dockerVars>>

\* runPipelineLogic: git.Clone of the run's commit; an error fails the
\* pipeline and returns before the cleanup is deferred
cloneRepository(outcome) ==
  /\ pc = "clone"
  /\ disk' = Clone(WorkspaceDir, outcome)
  /\ IF outcome = "ok"
     THEN /\ deferred' = deferred \cup {WorkspaceDir}
          /\ pc' = "stat"
          /\ UNCHANGED <<pipelineStatus, finishedAt>>
     ELSE /\ setPipelineStatus("failed")
          /\ pc' = "return"
          /\ UNCHANGED deferred
  /\ UNCHANGED <<notRun, cfgVars, jobStatus, jobExit, deployStatus, loopVars, pipelineSuccess,
                 deployVars, dockerVars>>

\* runPipelineLogic, had it returned on a missing pipeline file without
\* setting the pipeline failed
statConfigKeepsStatus(found) ==
  /\ pc = "stat"
  /\ pc' = IF found THEN "parse" ELSE "return"
  /\ UNCHANGED <<notRun, cfgVars, pipelineStatus, finishedAt, jobStatus, jobExit,
                 deployStatus, disk, deferred, loopVars, pipelineSuccess, deployVars,
                 dockerVars>>

\* runPipelineLogic: os.Stat of the pipeline file
statConfig(found) ==
  /\ pc = "stat"
  /\ IF found
     THEN /\ pc' = "parse"
          /\ UNCHANGED <<pipelineStatus, finishedAt>>
     ELSE /\ setPipelineStatus("failed")
          /\ pc' = "return"
  /\ UNCHANGED <<notRun, cfgVars, jobStatus, jobExit, deployStatus, disk, deferred, loopVars,
                 pipelineSuccess, deployVars, dockerVars>>

\* runPipelineLogic, had a pipeline file that does not parse ended the run
\* without a status update
parseConfigKeepsStatus(ok) ==
  /\ pc = "parse"
  /\ pc' = IF ok THEN "precreate" ELSE "return"
  /\ UNCHANGED <<notRun, cfgVars, dbVars, disk, deferred, loopVars,
                 pipelineSuccess, deployVars, dockerVars>>

\* runPipelineLogic: pipeline.Parser.Parse of the pipeline file
parseConfig(ok) ==
  /\ pc = "parse"
  /\ IF ok
     THEN /\ pc' = "precreate"
          /\ UNCHANGED <<pipelineStatus, finishedAt>>
     ELSE /\ setPipelineStatus("failed")
          /\ pc' = "return"
  /\ UNCHANGED <<notRun, cfgVars, jobStatus, jobExit, deployStatus, disk, deferred, loopVars,
                 pipelineSuccess, deployVars, dockerVars>>

\* number of times config.Stages lists a stage name
Listings(stage) == Cardinality({i \in DOMAIN cfgStages : cfgStages[i] = stage})

\* runPipelineLogic: for every listing of a stage, pre-create a pending job
\* for every job of that stage, then the pending deployment; then enter
\* executePipeline
preCreate ==
  /\ pc = "precreate"
  /\ jobStatus' = [r \in JobIDs |->
                     IF db /\ Listing(r) <= Listings(cfgJobs[JobOf(r)])
                     THEN "pending" ELSE jobStatus[r]]
  /\ deployStatus' = IF db THEN "pending" ELSE deployStatus
  /\ pipelineSuccess' = TRUE
  /\ stageIdx' = 1
  /\ visited' = {}
  /\ pc' = "stage"
  /\ UNCHANGED <<notRun, cfgVars, pipelineStatus, finishedAt, jobExit, disk, deferred, curJob,
                 jobID, deployVars, dockerVars>>

\* DB.GetJobByName: the records of the pipeline with that name; QueryRow
\* scans the first row of an unordered result
GetJobByName(name) == {r \in JobIDs : JobOf(r) = name /\ jobStatus[r] # "none"}

\* executePipeline: the range over config.Jobs yields a job of the current
\* stage (in any order); its record is looked up and set running
jobRunning(j) ==
  /\ pc = "stage"
  /\ stageIdx <= Len(cfgStages)
  /\ j \in JobNames \ visited
  /\ cfgJobs[j] = cfgStages[stageIdx]
  /\ IF db
     THEN \E r \in GetJobByName(j) :
            /\ jobID' = r
            /\ UpdateJobStatus(r, "running", Nil)
     ELSE /\ jobID' = 0
          /\ UNCHANGED <<jobStatus, jobExit>>
  /\ visited' = visited \cup {j}
  /\ curJob' = j
  /\ pc' = "pull"
  /\ UNCHANGED <<notRun, cfgVars, pipelineStatus, finishedAt, deployStatus, disk, deferred,
                 stageIdx, pipelineSuccess, deployVars, dockerVars>>

\* executePipeline, had a failed pull continued with the next job without
\* recording the job as failed
PullImageLeavesRunning(ok) ==
  /\ pc = "pull"
  /\ pullResult' = [pullResult EXCEPT ![curJob] = IF ok THEN "ok" ELSE "error"]
  /\ IF ok
     THEN /\ pc' = "run"
          /\ UNCHANGED pipelineSuccess
     ELSE /\ pipelineSuccess' = FALSE
          /\ pc' = "stage"
  /\ UNCHANGED <<notRun, cfgVars, pipelineStatus, finishedAt, jobStatus, jobExit,
                 deployStatus, disk, deferred, loopVars, deployVars, containers, observed>>

\* executePipeline: docker.PullImage; an error fails the job with exit code 1
\* and continues with the next job of the range
PullImage(ok) ==
  /\ pc = "pull"
  /\ pullResult' = [pullResult EXCEPT ![curJob] = IF ok THEN "ok" ELSE "error"]
  /\ IF ok
     THEN /\ pc' = "run"
          /\ UNCHANGED <<jobStatus, jobExit, pipelineSuccess>>
     ELSE /\ setJobStatus("failed", <<1>>)
          /\ pipelineSuccess' = FALSE
          /\ pc' = "stage"
  /\ UNCHANGED <<notRun, cfgVars, pipelineStatus, finishedAt, deployStatus, disk, deferred,
                 loopVars, deployVars, containers, observed>>

\* executePipeline: docker.RunJobWithVolume (ContainerCreate, ContainerStart);
\* an error fails the job with exit code 1 and continues with the next job
RunJobWithVolume(res) ==
  /\ pc = "run"
  /\ containers' = IF res = "createFailed" THEN containers ELSE containers \cup {curJob}
  /\ IF res = "ok"
     THEN /\ pc' = "wait"
          /\ UNCHANGED <<jobStatus, jobExit, pipelineSuccess>>
     ELSE /\ setJobStatus("failed", <<1>>)
          /\ pipelineSuccess' = FALSE
          /\ pc' = "stage"
  /\ UNCHANGED <<notRun, cfgVars, pipelineStatus, finishedAt, deployStatus, disk, deferred,
                 loopVars, deployVars, pullResult, observed>>

\* DockerExecutor.WaitForContainer: the status code, 0 when the wait failed
StatusCode(res) == IF res = Nil THEN 0 ELSE res[1]

\* executePipeline: collectLogs, docker.WaitForContainer, the job's final
\* status; a non-zero status code returns false at once
WaitForContainer(res) ==
  /\ pc = "wait"
  /\ observed' = [observed EXCEPT ![curJob] = res]
  /\ setJobStatus(IF StatusCode(res) # 0 THEN "failed" ELSE "success",
                  <<StatusCode(res)>>)
  /\ IF StatusCode(res) # 0
     THEN /\ pipelineSuccess' = FALSE
          /\ pc' = "deploy"
     ELSE /\ pc' = "stage"
          /\ UNCHANGED pipelineSuccess
  /\ UNCHANGED <<notRun, cfgVars, pipelineStatus, finishedAt, deployStatus, disk, deferred,
                 loopVars, deployVars, pullResult, containers>>

\* executePipeline: the range over config.Jobs is exhausted for this stage
nextStage ==
  /\ pc = "stage"
  /\ stageIdx <= Len(cfgStages)
  /\ ~ \E j \in JobNames \ visited : cfgJobs[j] = cfgStages[stageIdx]
  /\ stageIdx' = stageIdx + 1
  /\ visited' = {}
  /\ UNCHANGED <<notRun, pc, cfgVars, dbVars, disk, deferred, curJob, jobID,
                 pipelineSuccess, deployVars, dockerVars>>

\* executePipeline: all stages done, return pipelineSuccess
executeReturn ==
  /\ pc = "stage"
  /\ stageIdx > Len(cfgStages)
  /\ pc' = "deploy"
  /\ UNCHANGED <<notRun, cfgVars, dbVars, disk, deferred, loopVars, pipelineSuccess,
                 deployVars, dockerVars>>

\* runPipelineLogic: if the jobs succeeded, mark the deployment deploying
deployBegin ==
  /\ pc = "deploy"
  /\ IF pipelineSuccess
     THEN /\ deploymentID' = (db /\ deployStatus # "none")
          /\ deployStatus' = IF db /\ deployStatus # "none" THEN "deploying"
                             ELSE deployStatus
          /\ pc' = "deployToEnv"
     ELSE /\ pc' = "finalize"
          /\ UNCHANGED <<deploymentID, deployStatus>>
  /\ UNCHANGED <<notRun, cfgVars, pipelineStatus, finishedAt, jobStatus, jobExit, disk, deferred,
                 loopVars, pipelineSuccess, deployErr, rollbackCommit, rollbackSuccess,
                 dockerVars>>

\* runPipelineLogic: deployToEnv of the run's commit
deployToEnv(ok) ==
  /\ pc = "deployToEnv"
  /\ IF ok
     THEN /\ deployStatus' = IF deploymentID THEN "success" ELSE deployStatus
          /\ pc' = "finalize"
          /\ UNCHANGED deployErr
     ELSE /\ deployErr' = TRUE
          /\ pc' = "rollback"
          /\ UNCHANGED deployStatus
  /\ UNCHANGED <<notRun, cfgVars, pipelineStatus, finishedAt, jobStatus, jobExit, disk, deferred,
                 loopVars, pipelineSuccess, deploymentID, rollbackCommit, rollbackSuccess,
                 dockerVars>>

\* runPipelineLogic: with a database and a project, look up the last
\* successful pipeline of the project
rollbackLookup ==
  /\ pc = "rollback"
  /\ rollbackCommit' = IF db THEN GetLastSuccessfulPipeline(ProjectID) ELSE 0
  /\ pc' = IF db /\ GetLastSuccessfulPipeline(ProjectID) # 0 THEN "rollbackClone" ELSE "outcome"
  /\ UNCHANGED <<notRun, cfgVars, dbVars, disk, deferred, loopVars, pipelineSuccess,
                 deploymentID, deployErr, rollbackSuccess, dockerVars>>

\* runPipelineLogic: git.Clone of the rollback commit into the rollback dir
rollbackClone(outcome) ==
  /\ pc = "rollbackClone"
  /\ disk' = Clone(RollbackDir, outcome)
  /\ IF outcome = "ok"
     THEN /\ deferred' = deferred \cup {RollbackDir}
          /\ pc' = "rollbackDeploy"
     ELSE /\ pc' = "outcome"
          /\ UNCHANGED deferred
  /\ UNCHANGED <<notRun, cfgVars, dbVars, loopVars, pipelineSuccess, deployVars, dockerVars>>

\* runPipelineLogic, had a failed rollback deployment led to another rollback
rollbackDeployAgain(ok) ==
  /\ pc = "rollbackDeploy"
  /\ rollbackSuccess' = ok
  /\ pc' = IF ok THEN "outcome" ELSE "rollback"
  /\ UNCHANGED <<notRun, cfgVars, dbVars, disk, deferred, loopVars, pipelineSuccess,
                 deploymentID, deployErr, rollbackCommit, dockerVars>>

\* runPipelineLogic: deployToEnv of the rollback commit
rollbackDeploy(ok) ==
  /\ pc = "rollbackDeploy"
  /\ rollbackSuccess' = ok
  /\ pc' = "outcome"
  /\ UNCHANGED <<notRun, cfgVars, dbVars, disk, deferred, loopVars, pipelineSuccess,
                 deploymentID, deployErr, rollbackCommit, dockerVars>>

\* recordRollback, had a successful rollback been recorded as a success
recordRollbackAsSuccess ==
  /\ pc = "outcome"
  /\ pipelineSuccess' = FALSE
  /\ deployStatus' = IF ~deploymentID THEN deployStatus
                     ELSE IF rollbackSuccess THEN "success" ELSE "failed"
  /\ pc' = "finalize"
  /\ UNCHANGED <<notRun, cfgVars, pipelineStatus, finishedAt, jobStatus, jobExit, disk,
                 deferred, loopVars, deployVars, dockerVars>>

\* runPipelineLogic: the deployment failed; record rolled_back or failed
recordRollback ==
  /\ pc = "outcome"
  /\ pipelineSuccess' = FALSE
  /\ deployStatus' = IF ~deploymentID THEN deployStatus
                     ELSE IF rollbackSuccess THEN "rolled_back" ELSE "failed"
  /\ pc' = "finalize"
  /\ UNCHANGED <<notRun, cfgVars, pipelineStatus, finishedAt, jobStatus, jobExit, disk, deferred,
                 loopVars, deployVars, dockerVars>>

\* finalize, had the failed branch tested `err != nil && deploy != nil`:
\* the deployment found is never updated
finalizeKeepsDeployment ==
  /\ pc = "finalize"
  /\ setPipelineStatus(IF pipelineSuccess THEN "success" ELSE "failed")
  /\ pc' = "return"
  /\ UNCHANGED <<notRun, cfgVars, jobStatus, jobExit, deployStatus, disk, deferred,
                 loopVars, pipelineSuccess, deployVars, dockerVars>>

\* finalize, had UpdatePipelineStatus set finished_at for success only
finalizeFinishedOnSuccess ==
  /\ pc = "finalize"
  /\ pipelineStatus' = [pipelineStatus EXCEPT
                          ![PipelineID] = IF ~db THEN @
                                          ELSE IF pipelineSuccess THEN "success"
                                          ELSE "failed"]
  /\ finishedAt' = [finishedAt EXCEPT
                      ![PipelineID] = IF db /\ pipelineSuccess THEN TRUE ELSE @]
  /\ deployStatus' = IF db /\ ~pipelineSuccess /\ deployStatus # "none" THEN "failed"
                     ELSE deployStatus
  /\ pc' = "return"
  /\ UNCHANGED <<notRun, cfgVars, jobStatus, jobExit, disk, deferred, loopVars, pipelineSuccess,
                 deployVars, dockerVars>>

\* runPipelineLogic: the final pipeline status; a failed pipeline also sets
\* the deployment GetDeploymentByPipeline finds to failed
finalize ==
  /\ pc = "finalize"
  /\ IF pipelineSuccess
     THEN /\ setPipelineStatus("success")
          /\ UNCHANGED deployStatus
     ELSE /\ setPipelineStatus("failed")
          /\ deployStatus' = IF db /\ deployStatus # "none" THEN "failed"
                             ELSE deployStatus
  /\ pc' = "return"
  /\ UNCHANGED <<notRun, cfgVars, jobStatus, jobExit, disk, deferred, loopVars, pipelineSuccess,
                 deployVars, dockerVars>>

\* runPipelineLogic returns: the deferred git.Cleanup calls run
return ==
  /\ pc = "return"
  /\ disk' = Cleanup(deferred)
  /\ pc' = "done"
  /\ UNCHANGED <<notRun, cfgVars, dbVars, deferred, loopVars, pipelineSuccess, deployVars,
                 dockerVars>>

CloneOutcomes == {"ok", "cloneFailed", "pinFailed"}
RunOutcomes == {"ok", "createFailed", "startFailed"}
WaitOutcomes == {<<c>> : c \in ExitCodes} \cup {Nil}

Next ==
  \/ runPipelineFromManualTrigger
  \/ \E outcome \in CloneOutcomes : cloneRepository(outcome)
  \/ \E found \in BOOLEAN : statConfig(found)
  \/ \E ok \in BOOLEAN : parseConfig(ok)
  \/ preCreate
  \/ \E j \in JobNames : jobRunning(j)
  \/ \E ok \in BOOLEAN : PullImage(ok)
  \/ \E res \in RunOutcomes : RunJobWithVolume(res)
  \/ \E res \in WaitOutcomes : WaitForContainer(res)
  \/ nextStage
  \/ executeReturn
  \/ deployBegin
  \/ \E ok \in BOOLEAN : deployToEnv(ok)
  \/ rollbackLookup
  \/ \E outcome \in CloneOutcomes : rollbackClone(outcome)
  \/ \E ok \in BOOLEAN : rollbackDeploy(ok)
  \/ recordRollback
  \/ finalize
  \/ return

Spec == Init /\ [][Next]_vars

\* a run of a pipeline file that lists one stage, in a database that also
\* holds pipelines of another project
InitProjects ==
  /\ \E projects \in [Pipelines -> Projects] :
       projects[PipelineID] = ProjectID /\ InitOf(projects)
  /\ Len(cfgStages) = 1

SpecProjects == InitProjects /\ [][Next]_vars

\* ------------------------------------------- a caller that gives up
\* the caller of the run gives up while a job executes. The run was started
\* with `go` after the request was answered and its Docker calls are made
\* with context.Background(): no step of the run reads the caller's state
callerAborts ==
  /\ pc \in {"pull", "run", "wait"}
  /\ ~aborted
  /\ aborted' = TRUE
  /\ UNCHANGED <<notRun, pc, cfgStages, cfgJobs, db, via, pipelineProject, pipelineStatus,
                 finishedAt,
                 jobStatus, jobExit, deployStatus, disk, deferred, loopVars,
                 pipelineSuccess, deployVars, dockerVars>>

NextAbort ==
  \/ callerAborts
  \/ Next

SpecAbort == Init /\ [][NextAbort]_vars

\* --------------------------------- the handlers, with or without database
\* a request for a run has arrived; the server may have no database
InitServer ==
  /\ pc = "request"
  /\ cfgStages \in StageLists
  /\ cfgJobs \in [JobNames -> JobStages]
  /\ db \in BOOLEAN
  /\ via \in {"manual", "webhook"}
  /\ aborted = FALSE
  /\ pipelineProject = [p \in Pipelines |-> ProjectID]
  /\ pipelineStatus = [p \in Pipelines |-> IF p = PipelineID THEN "none" ELSE "success"]
  /\ finishedAt = [p \in Pipelines |-> p # PipelineID]
  /\ jobStatus = [r \in JobIDs |-> "none"]
  /\ jobExit = [r \in JobIDs |-> Nil]
  /\ deployStatus = "none"
  /\ disk = {}
  /\ deferred = {}
  /\ stageIdx = 0
  /\ visited = {}
  /\ curJob = 0
  /\ jobID = 0
  /\ pipelineSuccess = FALSE
  /\ deploymentID = FALSE
  /\ deployErr = FALSE
  /\ rollbackCommit = 0
  /\ rollbackSuccess = FALSE
  /\ pullResult = [j \in JobNames |-> "none"]
  /\ containers = {}
  /\ observed = [j \in JobNames |-> Nil]
  /\ WsIdle
  /\ RgIdle
  /\ ShIdle
  /\ RbIdle
  /\ RmIdle
  /\ PvIdle
  /\ DcIdle
  /\ OvIdle
  /\ LogIdle

\* DB.CreatePipeline: a pipeline record with status pending
CreatePipeline == [pipelineStatus EXCEPT ![PipelineID] = "pending"]

\* triggerPipeline: without a database the request is refused (503); else
\* the project and the head commit are looked up, the pipeline is created
\* and runPipelineFromManualTrigger is started
triggerPipeline ==
  /\ pc = "request"
  /\ via = "manual"
  /\ IF ~db
     THEN /\ pc' = "unavailable"
          /\ UNCHANGED pipelineStatus
     ELSE \/ /\ pc' = "rejected"
             /\ UNCHANGED pipelineStatus
          \/ /\ pipelineStatus' = CreatePipeline
             /\ pc' = "trigger"
  /\ UNCHANGED <<notRun, cfgVars, finishedAt, jobStatus, jobExit, deployStatus, disk, deferred,
                 loopVars, pipelineSuccess, deployVars, dockerVars>>

\* runPipelineFromWebhook, had it created the pipeline without testing s.db
runPipelineFromWebhookUnguarded ==
  /\ pc = "request"
  /\ via = "webhook"
  /\ IF db
     THEN /\ pipelineStatus' = [pipelineStatus EXCEPT ![PipelineID] = "running"]
          /\ pc' = "clone"
     ELSE /\ pc' = "panic"
          /\ UNCHANGED pipelineStatus
  /\ UNCHANGED <<notRun, cfgVars, finishedAt, jobStatus, jobExit, deployStatus, disk, deferred,
                 loopVars, pipelineSuccess, deployVars, dockerVars>>

\* handleGitHubWebhook, runPipelineFromWebhook: with a database the project
\* is found or created (an error ends the run), the pipeline is created and
\* set running; without one the run starts with project and pipeline id 0
runPipelineFromWebhook ==
  /\ pc = "request"
  /\ via = "webhook"
  /\ IF db
     THEN \/ /\ pc' = "rejected"
             /\ UNCHANGED pipelineStatus
          \/ /\ pipelineStatus' = [pipelineStatus EXCEPT ![PipelineID] = "running"]
             /\ pc' = "clone"
     ELSE /\ pc' = "clone"
          /\ UNCHANGED pipelineStatus
  /\ UNCHANGED <<notRun, cfgVars, finishedAt, jobStatus, jobExit, deployStatus, disk, deferred,
                 loopVars, pipelineSuccess, deployVars, dockerVars>>

NextServer ==
  \/ triggerPipeline
  \/ runPipelineFromWebhook
  \/ Next

SpecServer == InitServer /\ [][NextServer]_vars

\* a request for a pipeline file that lists one stage
InitOneStage ==
  /\ InitServer
  /\ Len(cfgStages) = 1

\* the run is one goroutine and every external call returns: a step that
\* can be taken is taken
SpecServerFair == InitOneStage /\ [][NextServer]_vars /\ WF_vars(NextServer)

\* ------------------------------------- a run whose stage is listed twice
\* the state after triggerPipeline, for a pipeline file that lists a stage
\* twice; the project has deployed successfully before
InitRelisted ==
  /\ pc = "trigger"
  /\ cfgStages \in RelistedStages
  /\ cfgJobs \in [JobNames -> JobStages]
  /\ db = TRUE
  /\ via = "manual"
  /\ aborted = FALSE
  /\ pipelineProject = [p \in Pipelines |-> ProjectID]
  /\ pipelineStatus = [p \in Pipelines |-> IF p = PipelineID THEN "pending" ELSE "success"]
  /\ finishedAt = [p \in Pipelines |-> p # PipelineID]
  /\ jobStatus = [r \in JobIDs |-> "none"]
  /\ jobExit = [r \in JobIDs |-> Nil]
  /\ deployStatus = "none"
  /\ disk = {}
  /\ deferred = {}
  /\ stageIdx = 0
  /\ visited = {}
  /\ curJob = 0
  /\ jobID = 0
  /\ pipelineSuccess = FALSE
  /\ deploymentID = FALSE
  /\ deployErr = FALSE
  /\ rollbackCommit = 0
  /\ rollbackSuccess = FALSE
  /\ pullResult = [j \in JobNames |-> "none"]
  /\ containers = {}
  /\ observed = [j \in JobNames |-> Nil]
  /\ WsIdle
  /\ RgIdle
  /\ ShIdle
  /\ RbIdle
  /\ RmIdle
  /\ PvIdle
  /\ DcIdle
  /\ OvIdle
  /\ LogIdle

SpecRelisted == InitRelisted /\ [][Next]_vars

\* ------------------------------------------ concurrent runs, workspaces
\* runPipelineLogic is not in any of the steps modelled by Next; s.db is
\* there or not and the job record id, if there is one, has been set running
RunAt(store, id) ==
  /\ pc = "done"
  /\ cfgStages = <<>>
  /\ cfgJobs = [j \in JobNames |-> Unlisted]
  /\ db = store
  /\ via = "manual"
  /\ aborted = FALSE
  /\ pipelineProject = [p \in Pipelines |-> ProjectID]
  /\ pipelineStatus = [p \in Pipelines |-> "failed"]
  /\ finishedAt = [p \in Pipelines |-> TRUE]
  /\ jobStatus = [r \in JobIDs |-> IF r = id THEN "running" ELSE "none"]
  /\ jobExit = [r \in JobIDs |-> Nil]
  /\ deployStatus = "none"
  /\ disk = {}
  /\ deferred = {}
  /\ stageIdx = 0
  /\ visited = {}
  /\ curJob = 0
  /\ jobID = id
  /\ pipelineSuccess = FALSE
  /\ deploymentID = FALSE
  /\ deployErr = FALSE
  /\ rollbackCommit = 0
  /\ rollbackSuccess = FALSE
  /\ pullResult = [j \in JobNames |-> "none"]
  /\ containers = {}
  /\ observed = [j \in JobNames |-> Nil]

\* runPipelineLogic is not in any of the steps modelled by Next
RunParked == RunAt(TRUE, 0)

\* the runner is parked: only the workspace paths of concurrent runs move
InitWS ==
  /\ RunParked
  /\ WsIdle
  /\ RgIdle
  /\ ShIdle
  /\ RbIdle
  /\ RmIdle
  /\ PvIdle
  /\ DcIdle
  /\ OvIdle
  /\ LogIdle

\* the clock advances by one second
tick ==
  /\ clock < MaxClock
  /\ clock' = clock + 1
  /\ UNCHANGED <<notWs, runPhase, runRepo, runCommit, runDir, dirs>>

\* handleGitHubWebhook: `go runPipelineFromWebhook`; the run computes its
\* workspaceDir from the repository name, the commit and the clock, and
\* clones into it
startRun(r, repo, commit) ==
  /\ runPhase[r] = "idle"
  /\ runPhase' = [runPhase EXCEPT ![r] = "running"]
  /\ runRepo' = [runRepo EXCEPT ![r] = repo]
  /\ runCommit' = [runCommit EXCEPT ![r] = commit]
  /\ runDir' = [runDir EXCEPT ![r] = WorkspacePath(repo, commit, clock)]
  /\ dirs' = dirs \cup {WorkspacePath(repo, commit, clock)}
  /\ UNCHANGED <<notWs, clock>>

\* runPipelineLogic returns: the deferred git.Cleanup removes workspaceDir
finishRun(r) ==
  /\ runPhase[r] = "running"
  /\ runPhase' = [runPhase EXCEPT ![r] = "done"]
  /\ dirs' = dirs \ {runDir[r]}
  /\ UNCHANGED <<notWs, clock, runRepo, runCommit, runDir>>

NextWS ==
  \/ tick
  \/ \E r \in RunIds, repo \in RepoNames, commit \in CommitHashes : startRun(r, repo, commit)
  \/ \E r \in RunIds : finishRun(r)

SpecWS == InitWS /\ [][NextWS]_vars

\* ------------------------------------ requests for a project's variables
\* a project owned by one user, with some variables already stored
InitVariables ==
  /\ RunParked
  /\ WsIdle
  /\ RgIdle
  /\ ShIdle
  /\ RbIdle
  /\ RmIdle
  /\ DcIdle
  /\ OvIdle
  /\ LogIdle
  /\ ownerID \in Users
  /\ projectVariables \in SUBSET Keys
  /\ userID = 0
  /\ reqMethod = "none"
  /\ reqKey = 0
  /\ respStatus = "none"

\* POST /api/v1/projects/{id}/variables through AuthMiddleware,
\* routeProjectsSubpath, handleVariables and createVariable: the user id of
\* the token is read and dropped, the body is decoded, the row is inserted
createVariable(u, key, decoded, ok) ==
  /\ userID' = u
  /\ reqMethod' = "POST"
  /\ reqKey' = key
  /\ IF u = 0
     THEN /\ respStatus' = "StatusUnauthorized"
          /\ UNCHANGED projectVariables
     ELSE IF ~decoded
     THEN /\ respStatus' = "StatusBadRequest"
          /\ UNCHANGED projectVariables
     ELSE IF ~ok
     THEN /\ respStatus' = "StatusInternalServerError"
          /\ UNCHANGED projectVariables
     ELSE /\ projectVariables' = projectVariables \cup {key}
          /\ respStatus' = "StatusCreated"
  /\ UNCHANGED <<notPv, ownerID>>

\* DELETE /api/v1/projects/{id}/variables/{key} through AuthMiddleware,
\* routeProjectsSubpath, handleVariable and deleteVariable: the user id of
\* the token is read and dropped, the row is deleted
deleteVariable(u, key, ok) ==
  /\ userID' = u
  /\ reqMethod' = "DELETE"
  /\ reqKey' = key
  /\ IF u = 0
     THEN /\ respStatus' = "StatusUnauthorized"
          /\ UNCHANGED projectVariables
     ELSE IF ~ok
     THEN /\ respStatus' = "StatusInternalServerError"
          /\ UNCHANGED projectVariables
     ELSE /\ projectVariables' = projectVariables \ {key}
          /\ respStatus' = "StatusOK"
  /\ UNCHANGED <<notPv, ownerID>>

NextVariables ==
  \/ \E u \in Callers, key \in Keys, decoded \in BOOLEAN, ok \in BOOLEAN :
       createVariable(u, key, decoded, ok)
  \/ \E u \in Callers, key \in Keys, ok \in BOOLEAN : deleteVariable(u, key, ok)

SpecVariables == InitVariables /\ [][NextVariables]_vars

\* ------------------------------------------- the registry and SSH flow
\* deployToEnv has chosen deployRemote; the remote host may hold the
\* directory and files of an earlier deployment of the project
InitRemote ==
  /\ RunParked
  /\ WsIdle
  /\ RgIdle
  /\ ShIdle
  /\ RbIdle
  /\ PvIdle
  /\ DcIdle
  /\ OvIdle
  /\ LogIdle
  /\ rmPc = "override"
  /\ rmSteps = <<>>
  /\ rmErr = "none"
  /\ rmDropped = {}
  /\ loggedIn = FALSE
  /\ built = FALSE
  /\ pushed = FALSE
  /\ remoteDir \in BOOLEAN
  /\ remoteFiles \in [RemoteFiles -> {"absent", "stale"}]
  /\ ~remoteDir => remoteFiles = [f \in RemoteFiles |-> "absent"]
  /\ scriptExec = (remoteFiles["script"] = "stale")
  /\ remoteRun = "none"

\* deployRemote: a step that returns its error to the caller of deployRemote
returning(step, ok, next) ==
  /\ rmSteps' = Append(rmSteps, step)
  /\ rmPc' = IF ok THEN next ELSE "returned"
  /\ rmErr' = IF ok THEN rmErr ELSE step
  /\ UNCHANGED rmDropped

\* executeRemoteSSH: a call of the SSH client whose result is not assigned
dropping(step, ok, next) ==
  /\ rmSteps' = Append(rmSteps, step)
  /\ rmPc' = next
  /\ rmDropped' = IF ok THEN rmDropped ELSE rmDropped \cup {step}
  /\ UNCHANGED rmErr

\* deployRemote step 1: generateOverride parses the compose file, generates
\* the override and writes it into the workspace
remoteOverride(ok) ==
  /\ rmPc = "override"
  /\ returning("override", ok, "login")
  /\ UNCHANGED <<notRm, loggedIn, built, pushed, remoteDir, remoteFiles, scriptExec, remoteRun>>

\* buildAndPushImages: docker.Login
Login(ok) ==
  /\ rmPc = "login"
  /\ returning("login", ok, "build")
  /\ loggedIn' = ok
  /\ UNCHANGED <<notRm, built, pushed, remoteDir, remoteFiles, scriptExec, remoteRun>>

\* buildAndPushImages: docker.ComposeBuild
ComposeBuild(ok) ==
  /\ rmPc = "build"
  /\ returning("build", ok, "push")
  /\ built' = ok
  /\ UNCHANGED <<notRm, loggedIn, pushed, remoteDir, remoteFiles, scriptExec, remoteRun>>

\* buildAndPushImages, had it gone on to the remote host after a failed push
ComposePushGoesOn(ok) ==
  /\ rmPc = "push"
  /\ dropping("push", ok, "ssh")
  /\ pushed' = ok
  /\ UNCHANGED <<notRm, loggedIn, built, remoteDir, remoteFiles, scriptExec, remoteRun>>

\* buildAndPushImages: docker.ComposePush
ComposePush(ok) ==
  /\ rmPc = "push"
  /\ returning("push", ok, "ssh")
  /\ pushed' = ok
  /\ UNCHANGED <<notRm, loggedIn, built, remoteDir, remoteFiles, scriptExec, remoteRun>>

\* executeRemoteSSH: ssh.NewClient
NewClient(ok) ==
  /\ rmPc = "ssh"
  /\ returning("ssh", ok, "mkdir")
  /\ UNCHANGED <<notRm, loggedIn, built, pushed, remoteDir, remoteFiles, scriptExec, remoteRun>>

\* executeRemoteSSH: client.RunCommand("mkdir -p " + remoteDir)
mkdirRemote(ok) ==
  /\ rmPc = "mkdir"
  /\ dropping("mkdir", ok, "compose")
  /\ remoteDir' = (remoteDir \/ ok)
  /\ UNCHANGED <<notRm, loggedIn, built, pushed, remoteFiles, scriptExec, remoteRun>>

\* the step that copies a file, and the position after it
CopyStep(f) ==
  IF f = "compose" THEN "compose" ELSE IF f = "override" THEN "override.yml" ELSE "script"

AfterCopy(f) ==
  IF f = "compose" THEN "override.yml" ELSE IF f = "override" THEN "script" ELSE "chmod"

\* executeRemoteSSH: client.CopyFile runs `cat > path` on the remote host,
\* which cannot succeed without the directory
CopyFile(f, ok) ==
  /\ rmPc = CopyStep(f)
  /\ ok => remoteDir
  /\ dropping(CopyStep(f), ok, AfterCopy(f))
  /\ remoteFiles' = IF ok THEN [remoteFiles EXCEPT ![f] = "fresh"] ELSE remoteFiles
  /\ UNCHANGED <<notRm, loggedIn, built, pushed, remoteDir, scriptExec, remoteRun>>

\* executeRemoteSSH: client.RunCommand("chmod +x " + remoteDir + "/deploy.sh")
chmodScript(ok) ==
  /\ rmPc = "chmod"
  /\ ok => remoteFiles["script"] # "absent"
  /\ dropping("chmod", ok, "deploy")
  /\ scriptExec' = (scriptExec \/ ok)
  /\ UNCHANGED <<notRm, loggedIn, built, pushed, remoteDir, remoteFiles, remoteRun>>

\* executeRemoteSSH: client.RunCommandStream of `cd remoteDir && ./deploy.sh`;
\* the script can exit 0 only if it and the files it reads are there
RunCommandStream(ok) ==
  /\ rmPc = "deploy"
  /\ ok => /\ scriptExec
           /\ \A f \in RemoteFiles : remoteFiles[f] # "absent"
  /\ returning("deploy", ok, "returned")
  /\ remoteRun' = IF ~ok THEN remoteRun
                  ELSE IF \A f \in RemoteFiles : remoteFiles[f] = "fresh" THEN "fresh"
                  ELSE "stale"
  /\ UNCHANGED <<notRm, loggedIn, built, pushed, remoteDir, remoteFiles, scriptExec>>

NextRemote ==
  \/ \E ok \in BOOLEAN : remoteOverride(ok)
  \/ \E ok \in BOOLEAN : Login(ok)
  \/ \E ok \in BOOLEAN : ComposeBuild(ok)
  \/ \E ok \in BOOLEAN : ComposePush(ok)
  \/ \E ok \in BOOLEAN : NewClient(ok)
  \/ \E ok \in BOOLEAN : mkdirRemote(ok)
  \/ \E f \in RemoteFiles, ok \in BOOLEAN : CopyFile(f, ok)
  \/ \E ok \in BOOLEAN : chmodScript(ok)
  \/ \E ok \in BOOLEAN : RunCommandStream(ok)

SpecRemote == InitRemote /\ [][NextRemote]_vars

\* ---------------------------- deployment log of a failed run's rollback
\* the jobs of a run have succeeded and deployToEnv is called for a project
\* with a database record and an earlier successful pipeline
InitRollbackLog ==
  /\ RunParked
  /\ WsIdle
  /\ RgIdle
  /\ ShIdle
  /\ RmIdle
  /\ PvIdle
  /\ DcIdle
  /\ OvIdle
  /\ LogIdle
  /\ rbPc = "attempt"
  /\ rbFlow \in {"local", "remote"}
  /\ rbLog = <<>>
  /\ rbPiped = [d \in Deployments |-> 0]
  /\ rbWritten = [d \in Deployments |-> 0]

\* the deployment that is under way, if any
Deploying == IF rbPc \in Deployments THEN {rbPc} ELSE {}

\* deployLocal, deployRemote: dLogger.Log called by the goroutine of the run
\* (flow messages, compose output, build and push logs)
deployLog(d) ==
  /\ d \in Deploying
  /\ rbWritten[d] < MaxRbLines
  /\ rbWritten' = [rbWritten EXCEPT ![d] = @ + 1]
  /\ rbLog' = Append(rbLog, d)
  /\ UNCHANGED <<notRb, rbPc, rbFlow, rbPiped>>

\* executeRemoteSSH: the remote deploy script prints a line; it waits in
\* the session's pipe for a scanner goroutine of RunCommandStream
remoteLine(d) ==
  /\ d \in Deploying
  /\ rbFlow = "remote"
  /\ rbWritten[d] < MaxRbLines
  /\ rbWritten' = [rbWritten EXCEPT ![d] = @ + 1]
  /\ rbPiped' = [rbPiped EXCEPT ![d] = @ + 1]
  /\ UNCHANGED <<notRb, rbPc, rbFlow, rbLog>>

\* RunCommandStream: a scanner goroutine (`go scan(stdout)`) reads a line
\* and calls the log callback; nothing makes session.Wait or the caller
\* wait for it
scan(d) ==
  /\ rbPiped[d] > 0
  /\ rbPiped' = [rbPiped EXCEPT ![d] = @ - 1]
  /\ rbLog' = Append(rbLog, d)
  /\ UNCHANGED <<notRb, rbPc, rbFlow, rbWritten>>

\* executeRemoteSSH has returned and its deferred client.Close() has closed
\* the connection: lines the scanners have not read yet may be lost
closeDrops(d) ==
  /\ d \notin Deploying
  /\ rbPiped[d] > 0
  /\ rbPiped' = [rbPiped EXCEPT ![d] = 0]
  /\ UNCHANGED <<notRb, rbPc, rbFlow, rbLog, rbWritten>>

\* runPipelineLogic: deployToEnv returns an error; the last successful
\* pipeline is looked up and its commit is cloned
attemptFails(cloned) ==
  /\ rbPc = "attempt"
  /\ rbPc' = IF cloned THEN "cloned" ELSE "done"
  /\ UNCHANGED <<notRb, rbFlow, rbLog, rbPiped, rbWritten>>

\* runPipelineLogic: CreateDeploymentLog of the rollback line, then
\* deployToEnv for the rollback commit
rollbackStarts ==
  /\ rbPc = "cloned"
  /\ rbLog' = Append(rbLog, RollbackStarted)
  /\ rbPc' = "rollback"
  /\ UNCHANGED <<notRb, rbFlow, rbPiped, rbWritten>>

\* runPipelineLogic: the rollback deployment returns
rollbackReturns ==
  /\ rbPc = "rollback"
  /\ rbPc' = "done"
  /\ UNCHANGED <<notRb, rbFlow, rbLog, rbPiped, rbWritten>>

NextRollbackLog ==
  \/ \E d \in Deployments : deployLog(d)
  \/ \E d \in Deployments : remoteLine(d)
  \/ \E d \in Deployments : scan(d)
  \/ \E d \in Deployments : closeDrops(d)
  \/ \E cloned \in BOOLEAN : attemptFails(cloned)
  \/ rollbackStarts
  \/ rollbackReturns

SpecRollbackLog == InitRollbackLog /\ [][NextRollbackLog]_vars

\* ----------------------------------------------------------- job script
\* RunJobWithVolume is about to be called with a job's script
InitScript ==
  /\ RunParked
  /\ WsIdle
  /\ RgIdle
  /\ RbIdle
  /\ RmIdle
  /\ PvIdle
  /\ DcIdle
  /\ OvIdle
  /\ LogIdle
  /\ shPc = "join"
  /\ commands \in UNION {[1..n -> Entries] : n \in 0..MaxScript}
  /\ cmdString = <<>>
  /\ shIdx = 0
  /\ shExit = 0
  /\ shRan = {}

\* strings.Join(commands, " && ")
RECURSIVE Join(_)
Join(elems) ==
  IF elems = <<>> THEN <<>>
  ELSE IF Len(elems) = 1 THEN elems[1]
  ELSE elems[1] \o <<"&&">> \o Join(Tail(elems))

\* DockerExecutor.RunJobWithVolume: the entries are joined with " && " and
\* the container is created and started with Cmd sh -c cmdString
joinCommands ==
  /\ shPc = "join"
  /\ cmdString' = Join(commands)
  /\ shIdx' = 1
  /\ shPc' = "sh"
  /\ UNCHANGED <<notSh, commands, shExit, shRan>>

\* sh -c: the next command of the AND-OR list; `&&` and `||` have the same
\* precedence and associate to the left: the command after && runs when $?
\* is 0, the command after || when it is not
shCommand ==
  /\ shPc = "sh"
  /\ shIdx <= Len(cmdString)
  /\ LET runs == \/ shIdx = 1
                 \/ cmdString[shIdx - 1] = "&&" /\ shExit = 0
                 \/ cmdString[shIdx - 1] = "||" /\ shExit # 0
     IN IF runs
        THEN /\ shExit' = ExitStatus(cmdString[shIdx])
             /\ shRan' = shRan \cup {shIdx}
        ELSE UNCHANGED <<shExit, shRan>>
  /\ shIdx' = shIdx + 2
  /\ UNCHANGED <<notSh, shPc, commands, cmdString>>

\* sh -c: the list is exhausted; the shell, and with it the container, exits
\* with $?
shExits ==
  /\ shPc = "sh"
  /\ shIdx > Len(cmdString)
  /\ shPc' = "exited"
  /\ UNCHANGED <<notSh, commands, cmdString, shIdx, shExit, shRan>>

NextScript ==
  \/ joinCommands
  \/ shCommand
  \/ shExits

SpecScript == InitScript /\ [][NextScript]_vars

\* ------------------------------------------------- registry credentials
\* runs of different projects: each is about to build and push its images or
\* does not deploy remotely; the project of run r has registry user <<r>>
InitRegistry ==
  /\ RunParked
  /\ WsIdle
  /\ RbIdle
  /\ RmIdle
  /\ PvIdle
  /\ DcIdle
  /\ OvIdle
  /\ LogIdle
  /\ ShIdle
  /\ rgPc \in [RunIds -> {"login", "idle"}]
  /\ authConfig = Nil
  /\ dockerConfig = Nil
  /\ pushedAs = [r \in RunIds |-> Nil]

LoginOutcomes == {"ok", "apiFailed", "cliFailed"}

\* buildAndPushImages: s.docker.Login(project.RegistryUser,
\* project.RegistryToken, ""). DockerExecutor.Login: RegistryLogin, then the
\* field authConfig of the one executor is set, then `docker login` stores
\* the user for the default registry in the configuration of the docker CLI
registryLogin(r, outcome) ==
  /\ rgPc[r] = "login"
  /\ authConfig' = IF outcome = "apiFailed" THEN authConfig ELSE <<r>>
  /\ dockerConfig' = IF outcome = "ok" THEN <<r>> ELSE dockerConfig
  /\ rgPc' = [rgPc EXCEPT ![r] = IF outcome = "ok" THEN "build" ELSE "failed"]
  /\ UNCHANGED <<notRg, pushedAs>>

\* buildAndPushImages: s.docker.ComposeBuild
composeBuild(r, ok) ==
  /\ rgPc[r] = "build"
  /\ rgPc' = [rgPc EXCEPT ![r] = IF ok THEN "push" ELSE "failed"]
  /\ UNCHANGED <<notRg, authConfig, dockerConfig, pushedAs>>

\* buildAndPushImages: s.docker.ComposePush; `docker compose push` takes the
\* credentials the docker CLI has stored for the registry
composePush(r, ok) ==
  /\ rgPc[r] = "push"
  /\ pushedAs' = [pushedAs EXCEPT ![r] = dockerConfig]
  /\ rgPc' = [rgPc EXCEPT ![r] = IF ok THEN "pushed" ELSE "failed"]
  /\ UNCHANGED <<notRg, authConfig, dockerConfig>>

NextRegistry ==
  \/ \E r \in RunIds, outcome \in LoginOutcomes : registryLogin(r, outcome)
  \/ \E r \in RunIds, ok \in BOOLEAN : composeBuild(r, ok)
  \/ \E r \in RunIds, ok \in BOOLEAN : composePush(r, ok)

SpecRegistry == InitRegistry /\ [][NextRegistry]_vars

\* ------------------------------------------------- job and deployment logs
\* the runner is parked: executePipeline is about to collect the logs of a
\* job's container, or deployToEnv is about to log a deployment
InitLogs ==
  /\ \/ logPc = "collect" /\ \E store \in BOOLEAN : RunAt(store, IF store THEN 1 ELSE 0)
     \/ logPc = "deploy" /\ RunParked
  /\ WsIdle
  /\ RgIdle
  /\ ShIdle
  /\ RbIdle
  /\ RmIdle
  /\ PvIdle
  /\ DcIdle
  /\ OvIdle
  /\ scanned = 0
  /\ readLines = <<>>
  /\ logBatch = <<>>
  /\ jobLogs = <<>>
  /\ deployLogs = <<>>

\* DB.CreateLogBatch: one transaction inserting the lines in order
CreateLogBatch(contents) == jobLogs \o contents

\* collectLogs: docker.GetLogs; an error returns without reading anything;
\* `var logBatch []string` starts empty in every call
GetLogs(ok) ==
  /\ logPc = "collect"
  /\ logPc' = IF ok THEN "scan" ELSE "closed"
  /\ logBatch' = <<>>
  /\ UNCHANGED <<notLog, scanned, readLines, jobLogs, deployLogs>>

\* collectLogs: one turn of the scanner loop: strip the NUL bytes, skip an
\* empty line, append to the batch; once the batch holds 10 lines, and there
\* is a store and a job record, store the batch and empty it
scanLine(line) ==
  /\ logPc = "scan"
  /\ scanned < MaxScan
  /\ scanned' = scanned + 1
  /\ LET cleanLine == ReplaceAll(line)
         batch == Append(logBatch, cleanLine)
     IN IF cleanLine = <<>>
        THEN UNCHANGED <<readLines, logBatch, jobLogs>>
        ELSE /\ readLines' = Append(readLines, cleanLine)
             /\ IF Len(batch) >= BatchSize /\ db /\ jobID > 0
                THEN /\ jobLogs' = CreateLogBatch(batch)
                     /\ logBatch' = <<>>
                ELSE /\ logBatch' = batch
                     /\ UNCHANGED jobLogs
  /\ UNCHANGED <<notLog, logPc, deployLogs>>

\* collectLogs, had the remaining lines been left in the batch
scanEndKeeps ==
  /\ logPc = "scan"
  /\ logPc' = "closed"
  /\ UNCHANGED <<notLog, scanned, readLines, logBatch, jobLogs, deployLogs>>

\* collectLogs: the stream is closed; the remaining lines are stored if there
\* is a store and a job record
scanEnd ==
  /\ logPc = "scan"
  /\ jobLogs' = IF Len(logBatch) > 0 /\ db /\ jobID > 0
                THEN CreateLogBatch(logBatch) ELSE jobLogs
  /\ logPc' = "closed"
  /\ UNCHANGED <<notLog, scanned, readLines, logBatch, deployLogs>>

\* executePipeline: collectLogs has returned; docker.WaitForContainer and
\* the job's final status
recordExit(res) ==
  /\ logPc = "closed"
  /\ IF db /\ jobID > 0
     THEN UpdateJobStatus(jobID, IF StatusCode(res) # 0 THEN "failed" ELSE "success",
                          <<StatusCode(res)>>)
     ELSE UNCHANGED <<jobStatus, jobExit>>
  /\ logPc' = "recorded"
  /\ UNCHANGED <<notLogRun, logRunRest, scanned, readLines, logBatch, jobLogs, deployLogs>>

\* executePipeline: the job's stage is listed once more and the job has
\* exited 0: the job is run again; GetJobByName yields the same record or the
\* record of the other listing, and the container starts or does not
relisted(same, started) ==
  /\ logPc = "recorded"
  /\ db /\ jobID > 0
  /\ jobStatus[jobID] = "success"
  /\ scanned < MaxScan
  /\ IF ~same
     THEN /\ logPc' = "elsewhere"
          /\ UNCHANGED <<jobStatus, jobExit>>
     ELSE IF started
          THEN /\ UpdateJobStatus(jobID, "running", Nil)
               /\ logPc' = "collect"
          ELSE /\ UpdateJobStatus(jobID, "failed", <<1>>)
               /\ logPc' = "recorded"
  /\ UNCHANGED <<notLogRun, logRunRest, scanned, readLines, logBatch, jobLogs, deployLogs>>

\* DB.CreateDeploymentLog: INSERT of the content as it is given; whether
\* the database stores a text holding a NUL byte is up to the database
CreateDeploymentLog(content, stored) ==
  IF stored \/ NUL \notin Range(content) THEN Append(deployLogs, content) ELSE deployLogs

\* DeploymentLogger.Log: the message is handed to the database unchanged;
\* an error of the database is logged and the message is dropped
Log(msg, stored) ==
  /\ logPc = "deploy"
  /\ Len(deployLogs) < MaxDeployLines
  /\ deployLogs' = CreateDeploymentLog(msg, stored)
  /\ UNCHANGED <<notLog, logPc, scanned, readLines, logBatch, jobLogs>>

NextLogs ==
  \/ \E ok \in BOOLEAN : GetLogs(ok)
  \/ \E line \in StreamLines : scanLine(line)
  \/ scanEnd
  \/ \E res \in WaitOutcomes : recordExit(res)
  \/ \E msg \in RawLines, stored \in BOOLEAN : Log(msg, stored)

SpecLogs == InitLogs /\ [][NextLogs]_vars

\* the stages list may name the job's stage more than once
NextLogsRelisted ==
  \/ NextLogs
  \/ \E same \in BOOLEAN, started \in BOOLEAN : relisted(same, started)

SpecLogsRelisted == InitLogs /\ [][NextLogsRelisted]_vars

\* ------------------------------------------- remote deploy: the override
\* deployRemote is about to generate the override for a compose file
InitOverride ==
  /\ RunParked
  /\ WsIdle
  /\ RgIdle
  /\ ShIdle
  /\ RbIdle
  /\ RmIdle
  /\ PvIdle
  /\ DcIdle
  /\ LogIdle
  /\ ovPc = "generate"
  /\ composeSvc \in [ServiceNames -> Bodies \cup {"absent"}]
  /\ ovRepoName \in ProjectNames
  /\ ovTag \in Tags
  /\ overrideContent = Nil
  /\ reparsed = <<>>

\* generateOverride, had it listed every service of the compose file
generateOverrideEveryService ==
  /\ ovPc = "generate"
  /\ overrideContent' =
       GenerateOverride({n \in ServiceNames : composeSvc[n] # "absent"},
                        RegistryUser, ovRepoName, ovTag)
  /\ ovPc' = "written"
  /\ UNCHANGED <<notOv, composeSvc, ovRepoName, ovTag, reparsed>>

\* generateOverride: ParseServices, GenerateOverride, os.WriteFile
generateOverride ==
  /\ ovPc = "generate"
  /\ overrideContent' = GenerateOverride(ParseServices, RegistryUser, ovRepoName, ovTag)
  /\ ovPc' = "written"
  /\ UNCHANGED <<notOv, composeSvc, ovRepoName, ovTag, reparsed>>

\* the override file is read back (docker compose -f ... -f override)
readOverride ==
  /\ ovPc = "written"
  /\ reparsed' = Unmarshal(overrideContent)
  /\ ovPc' = "parsed"
  /\ UNCHANGED <<notOv, composeSvc, ovRepoName, ovTag, overrideContent>>

NextOverride ==
  \/ generateOverride
  \/ readOverride

SpecOverride == InitOverride /\ [][NextOverride]_vars

\* ------------------------------------------ local deploy: DeployCompose
\* deployLocal is about to call DeployCompose
InitDeploy ==
  /\ RunParked
  /\ WsIdle
  /\ RgIdle
  /\ ShIdle
  /\ RbIdle
  /\ RmIdle
  /\ PvIdle
  /\ LogIdle
  /\ OvIdle
  /\ dcPc = "backup"
  /\ backupImages = FALSE
  /\ upCalls = 0
  /\ upConflict = FALSE
  /\ rollbackRuns = 0
  /\ restored = 0
  /\ dcErr = "none"
  /\ elapsed = 0
  /\ polls = 0
  /\ expected = {}
  /\ psInfo = <<>>
  /\ psExtra = FALSE

\* DeployCompose: the performRollback closure: restoreBackup if the
\* snapshot tagged an image, else only a log line
performRollback ==
  /\ rollbackRuns' = rollbackRuns + 1
  /\ restored' = IF backupImages THEN restored + 1 ELSE restored

\* DeployCompose: backupContainers; an error only means no backup
backupContainers(res) ==
  /\ dcPc = "backup"
  /\ backupImages' = (res = "tagged")
  /\ dcPc' = "pull"
  /\ UNCHANGED <<notDc, upCalls, upConflict, rollbackRuns, restored, dcErr, elapsed, polls,
                 expected, psInfo, psExtra>>

\* DeployCompose: compose pull; an error is returned without a rollback
composePull(ok) ==
  /\ dcPc = "pull"
  /\ IF ok
     THEN /\ dcPc' = "up"
          /\ UNCHANGED dcErr
     ELSE /\ dcPc' = "returned"
          /\ dcErr' = "pull"
  /\ UNCHANGED <<notDc, backupImages, upCalls, upConflict, rollbackRuns, restored, elapsed,
                 polls, expected, psInfo, psExtra>>

\* DeployCompose: compose up -d --build; any error, whatever its output,
\* runs performRollback and is returned
composeUp(ok, conflict) ==
  /\ dcPc = "up"
  /\ upCalls' = upCalls + 1
  /\ IF ok
     THEN /\ dcPc' = "services"
          /\ UNCHANGED <<upConflict, rollbackRuns, restored, dcErr>>
     ELSE /\ upConflict' = conflict
          /\ performRollback
          /\ dcErr' = "up"
          /\ dcPc' = "returned"
  /\ UNCHANGED <<notDc, backupImages, elapsed, polls, expected, psInfo, psExtra>>

\* checkDeploymentHealth: compose config --services; an error is returned
\* (and DeployCompose rolls back), no service at all is a success (and
\* DeployCompose cleans the backups up); otherwise the deadline is set
configServices(ok, services) ==
  /\ dcPc = "services"
  /\ IF ~ok
     THEN /\ performRollback
          /\ dcErr' = "services"
          /\ dcPc' = "returned"
          /\ UNCHANGED expected
     ELSE /\ expected' = services
          /\ dcPc' = IF services = {} THEN "returned" ELSE "poll"
          /\ UNCHANGED <<rollbackRuns, restored, dcErr>>
  /\ elapsed' = 0
  /\ UNCHANGED <<notDc, backupImages, upCalls, upConflict, polls, psInfo, psExtra>>

\* checkDeploymentHealth: the deadline has not passed; wait for the next
\* tick and run compose ps (a poll is short against the ticker period); an
\* error of the command continues with the next tick
composePs(ok, extra) ==
  /\ dcPc = "poll"
  /\ elapsed < HealthTimeout
  /\ elapsed' = elapsed + TickSeconds
  /\ polls' = polls + 1
  /\ IF ok
     THEN /\ psInfo' \in [expected -> ServiceInfos]
          /\ psExtra' = extra
          /\ dcPc' = "check"
     ELSE UNCHANGED <<psInfo, psExtra, dcPc>>
  /\ UNCHANGED <<notDc, backupImages, upCalls, upConflict, rollbackRuns, restored, dcErr,
                 expected>>

\* checkDeploymentHealth: the ps output is compared with the expected
\* services; healthy returns nil (DeployCompose cleans the backups up), an
\* unhealthy or stopped service returns an error (DeployCompose rolls back)
checkServices(res) ==
  /\ dcPc = "check"
  /\ res \in PollResults(psInfo, psExtra)
  /\ psInfo' = <<>>
  /\ psExtra' = FALSE
  /\ IF res = "continue"
     THEN /\ dcPc' = "poll"
          /\ UNCHANGED <<rollbackRuns, restored, dcErr>>
     ELSE IF res = "healthy"
     THEN /\ dcPc' = "returned"
          /\ UNCHANGED <<rollbackRuns, restored, dcErr>>
     ELSE /\ performRollback
          /\ dcErr' = res
          /\ dcPc' = "returned"
  /\ UNCHANGED <<notDc, backupImages, upCalls, upConflict, elapsed, polls, expected>>

\* healthTimeout, had DeployCompose returned the error without a rollback
healthTimeoutNoRollback ==
  /\ dcPc = "poll"
  /\ elapsed >= HealthTimeout
  /\ dcErr' = "timeout"
  /\ dcPc' = "returned"
  /\ UNCHANGED <<notDc, backupImages, upCalls, upConflict, rollbackRuns, restored, elapsed,
                 polls, expected, psInfo, psExtra>>

\* checkDeploymentHealth: the deadline has passed: the loop ends with the
\* timeout error, DeployCompose runs performRollback and returns it
healthTimeout ==
  /\ dcPc = "poll"
  /\ elapsed >= HealthTimeout
  /\ performRollback
  /\ dcErr' = "timeout"
  /\ dcPc' = "returned"
  /\ UNCHANGED <<notDc, backupImages, upCalls, upConflict, elapsed, polls, expected, psInfo,
                 psExtra>>

NextDeploy ==
  \/ \E res \in {"error", "empty", "tagged"} : backupContainers(res)
  \/ \E ok \in BOOLEAN : composePull(ok)
  \/ \E ok \in BOOLEAN, conflict \in BOOLEAN : composeUp(ok, conflict)
  \/ \E ok \in BOOLEAN, services \in SUBSET HealthServices : configServices(ok, services)
  \/ \E ok \in BOOLEAN, extra \in BOOLEAN : composePs(ok, extra)
  \/ \E res \in {"continue", "healthy", "unhealthy", "stopped"} : checkServices(res)
  \/ healthTimeout

SpecDeploy == InitDeploy /\ [][NextDeploy]_vars

\* ================================================================ claims
\* index of a job's stage in config.Stages, 0 when the stage is not listed
StageIndex(j) ==
  IF cfgJobs[j] \in Range(cfgStages)
  THEN CHOOSE i \in DOMAIN cfgStages : cfgStages[i] = cfgJobs[j]
  ELSE 0

\* a job has ended with an exit code other than 0
EndedNonZero(j) ==
  /\ jobStatus[j] \in {"success", "failed"}
  /\ jobExit[j] # Nil
  /\ jobExit[j] # <<0>>

\* no job leaves status pending in this step
NoJobLeavesPending ==
  \A k \in JobIDs : jobStatus[k] = "pending" => jobStatus'[k] = "pending"

\* C1 (fail-fast): once some job has ended with an exit code other than 0,
\* no job of the run leaves status pending any more.
C1_FailFast ==
  [][(\E j \in JobIDs : EndedNonZero(j)) => NoJobLeavesPending]_vars

\* C2: a job whose image pull failed is failed with exit code 1, and after a
\* failed pull no further image is pulled, no further container is created
\* and no further job leaves pending.
C2_PullFailureAborts ==
  [][/\ \A j \in JobNames :
          (pullResult[j] # "error" /\ pullResult'[j] = "error") =>
            jobStatus'[jobID] = "failed" /\ jobExit'[jobID] = <<1>>
     /\ (\E j \in JobNames : pullResult[j] = "error") =>
          /\ pullResult' = pullResult
          /\ containers' = containers
          /\ NoJobLeavesPending]_vars

\* C3 (stage ordering): a job of stage N+1 becomes running only when every
\* job of stage N has status success.
C3_StageOrdering ==
  [][\A k \in JobNames :
       (jobStatus[k] # "running" /\ jobStatus'[k] = "running") =>
         \A j \in JobNames :
           (StageIndex(j) > 0 /\ StageIndex(j) + 1 = StageIndex(k)) =>
             jobStatus[j] = "success"]_vars

\* C4: when the deployment failed and the rollback deployment of the last
\* successful commit returned no error, the deployment status at the end of
\* the run is rolled_back.
C4_RolledBackAtEnd ==
  (pc = "done" /\ deployErr /\ rollbackSuccess /\ deploymentID) =>
    deployStatus = "rolled_back"

C6_RollbackNeverSuccess ==
  deployErr =>
    /\ deployStatus # "success"
    /\ pc = "done" => deployStatus \in {"rolled_back", "failed"}

\* the deployment failed, the rollback deployment succeeded, the run ended
C6_Witness ==
  /\ pc = "done"
  /\ deployErr
  /\ deploymentID
  /\ rollbackCommit # 0
  /\ rollbackSuccess

\* C7 (workspace hygiene): when the run has ended with the pipeline in a
\* terminal status, its workspace directory does not exist.
C7_WorkspaceRemoved ==
  (pc = "done" /\ pipelineStatus[PipelineID] \in Terminal) => WorkspaceDir \notin disk

\* C8 (workspace isolation): two different runs never have the same
\* workspace path.
C8_UniqueWorkspace ==
  \A r1, r2 \in RunIds :
    (r1 # r2 /\ runPhase[r1] # "idle" /\ runPhase[r2] # "idle") =>
      runDir[r1] # runDir[r2]

\* C9: the run starts its deployment only when every job the pipeline file
\* declares has status success.
C9_DeployOnlyAfterAllJobs ==
  [][(pc = "deploy" /\ pc' = "deployToEnv") =>
       \A j \in JobNames : jobStatus[j] = "success"]_vars

\* C10: a job has status success only if its container was observed to exit
\* with code 0, every other finished job is failed, and the stored exit code
\* of a job whose exit was observed is the observed code.
C10_ExitCodeRecorded ==
  \A j \in JobNames :
    /\ jobStatus[j] = "success" => observed[j] = <<0>>
    /\ (jobStatus[j] \in {"success", "failed"} /\ observed[j] # <<0>>) =>
         jobStatus[j] = "failed"
    /\ (jobStatus[j] \in {"success", "failed"} /\ observed[j] # Nil) =>
         jobExit[j] = observed[j]

\* C11: when the pipeline file declares a job whose stage is not in the
\* stages list, the run ends with the pipeline failed and without any
\* container having been created.
C11_UnlistedStageFails ==
  (pc = "done" /\ \E j \in JobNames : cfgJobs[j] \notin Range(cfgStages)) =>
    /\ pipelineStatus[PipelineID] = "failed"
    /\ containers = {}

\* C12: every job record's status history follows pending -> running ->
\* (success or failed): a record is created pending, becomes terminal only
\* from running, never leaves a terminal status and never returns to an
\* earlier status.
C12_JobStatusHistory ==
  [][\A r \in JobIDs :
       jobStatus'[r] # jobStatus[r] =>
         <<jobStatus[r], jobStatus'[r]>> \in
           {<<"none", "pending">>, <<"pending", "running">>,
            <<"running", "success">>, <<"running", "failed">>}]_vars

\* C13: a pipeline's status only moves pending -> running -> (success,
\* failed or cancelled), no update changes it once it is terminal, and
\* finished_at is set exactly when the status is terminal.
C13_PipelineStatusMonotone ==
  /\ [](\A p \in Pipelines : finishedAt[p] <=> pipelineStatus[p] \in Terminal)
  /\ [][\A p \in Pipelines :
          /\ pipelineStatus[p] \in Terminal => pipelineStatus'[p] = pipelineStatus[p]
          /\ pipelineStatus'[p] # pipelineStatus[p] =>
               \/ pipelineStatus[p] = "pending" /\ pipelineStatus'[p] = "running"
               \/ pipelineStatus[p] = "running" /\ pipelineStatus'[p] \in Terminal]_vars

\* the run went through running, its jobs failed, and it has ended failed
\* with finished_at set
C13_Witness ==
  /\ pc = "done"
  /\ ~pipelineSuccess
  /\ \E r \in JobIDs : jobStatus[r] = "failed"
  /\ pipelineStatus[PipelineID] = "failed"
  /\ finishedAt[PipelineID]

CleanName(name) == [i \in DOMAIN name |-> ToLower(<<IF name[i] = " " THEN "-" ELSE name[i]>>)[1]]

\* registryUser/cleanProject-cleanService:commitHash
LawImage(service) ==
  RegistryUser \o <<"/">> \o CleanName(ovRepoName) \o <<"-">> \o CleanName(service)
    \o <<":">> \o ovTag

\* the services of the compose file that have a build key
Buildable == {n \in ServiceNames : composeSvc[n] \in {"build", "buildAndImage"}}

C16_ConflictRetriedOnce ==
  (upConflict /\ dcPc # "up") =>
    /\ upCalls = 2
    /\ dcErr = "up" => rollbackRuns = 1

C18_NilStoreTolerated ==
  ~db =>
    /\ pc # "panic"
    /\ pipelineStatus[PipelineID] = "none"
    /\ ~finishedAt[PipelineID]
    /\ \A r \in JobIDs : jobStatus[r] = "none" /\ jobExit[r] = Nil
    /\ deployStatus = "none"
    /\ ~deploymentID
    /\ rollbackCommit = 0

\* a run without a database has run a job to exit code 0 and has deployed
C18_Witness ==
  /\ ~db
  /\ pc = "done"
  /\ \E j \in JobNames : observed[j] = <<0>>
  /\ deployErr

\* C19: a request to create or delete a variable made by an authenticated
\* user who is not the owner of the project is answered with an error and
\* leaves the variables of the project as they were
C19_OnlyOwnerModifiesVariables ==
  [][(reqMethod' \in {"POST", "DELETE"} /\ userID' \in Users /\ userID' # ownerID) =>
       /\ respStatus' \notin {"StatusCreated", "StatusOK"}
       /\ projectVariables' = projectVariables]_vars

\* C20: when the caller aborts a run while a job executes, the pipeline ends
\* with status cancelled, and a job that had completed keeps its status
C20_AbortYieldsCancelled ==
  /\ []((aborted /\ pc = "done") => pipelineStatus[PipelineID] = "cancelled")
  /\ [][\A r \in JobIDs :
          (aborted /\ jobStatus[r] \in {"success", "failed"}) =>
            jobStatus'[r] = jobStatus[r]]_vars

\* the job records of the run that have status running
RunningJobs == {r \in JobIDs : jobStatus[r] = "running"}

\* C21: the jobs of a run execute one at a time: at most one job record has
\* status running, and a record becomes running only when the record that
\* was started before it has status success or failed
C21_SerialJobs ==
  /\ [](Cardinality(RunningJobs) <= 1)
  /\ [][\A r \in JobIDs :
          (jobStatus[r] # "running" /\ jobStatus'[r] = "running") =>
            /\ RunningJobs = {}
            /\ jobID # 0 => jobStatus[jobID] \in {"success", "failed"}]_vars

\* a second job is running after the first one has ended
C21_Witness ==
  \E r, q \in JobIDs :
    /\ r # q
    /\ jobStatus[r] \in {"success", "failed"}
    /\ jobStatus[q] = "running"

\* C22: the jobs of a stage are started in the order in which the pipeline
\* document declares them (job names are numbered in declaration order): a
\* job is started only when every job declared before it in the same stage
\* has been started
C22_DeclarationOrder ==
  [][\A j \in JobNames :
       (j \notin visited /\ j \in visited') =>
         \A k \in JobNames : (k < j /\ cfgJobs[k] = cfgJobs[j]) => k \in visited]_vars

\* C23: the container of a job is removed once its exit has been observed,
\* before the next job starts and before the run ends: while a job is being
\* started no container of an earlier job exists, and none exists when the
\* run has finished
C23_ContainersRemoved ==
  /\ pc = "pull" => containers = {}
  /\ pc = "done" => containers = {}

\* no job record of the run has left status pending yet
NoJobStarted == \A r \in JobIDs : jobStatus[r] \in {"none", "pending"}

\* C24: when the first job of a run becomes running, every job the pipeline
\* declares has a record with status pending and the pipeline has a
\* deployment record with status pending
C24_PreRecorded ==
  [][(NoJobStarted /\ \E r \in JobIDs : jobStatus'[r] = "running") =>
       /\ \A j \in JobNames : \E r \in JobIDs : JobOf(r) = j /\ jobStatus[r] = "pending"
       /\ deployStatus = "pending"]_vars

\* the run has returned before the job records were pre-created: the fetch
\* failed, the pipeline file is missing or it could not be parsed
ReturnedEarly == pc \in {"return", "done"} /\ stageIdx = 0

\* C25: a run whose fetch fails, whose pipeline file is missing or whose
\* pipeline file cannot be parsed ends failed, with no job record, no job
\* container and no deployment; these are the only ways to return early
C25_EarlyFailure ==
  /\ [](ReturnedEarly =>
          /\ pipelineStatus[PipelineID] = "failed"
          /\ finishedAt[PipelineID]
          /\ \A r \in JobIDs : jobStatus[r] = "none"
          /\ containers = {}
          /\ deployStatus = "none"
          /\ ~deploymentID
          /\ ~deployErr)
  /\ [][(pc \in {"clone", "stat", "parse"} /\ pc' = "return") => ReturnedEarly']_vars

\* the run has ended after the pipeline file, found in the cloned workspace,
\* could not be parsed or was missing
C25_Witness ==
  /\ pc = "done"
  /\ stageIdx = 0
  /\ deferred # {}
  /\ pipelineStatus[PipelineID] = "failed"

\* something has been done on the remote host
RemoteTouched ==
  \/ \E i \in DOMAIN rmSteps : rmSteps[i] \in {"ssh", "mkdir", "compose", "override.yml",
                                                "script", "chmod", "deploy"}
  \/ remoteRun # "none"
  \/ \E f \in RemoteFiles : remoteFiles[f] = "fresh"

\* C26: the remote flow attempts its steps in the order override, login,
\* build, push, SSH connection, copies, deploy script; a failed login, build
\* or push is returned at once as the deployment's error; images are pushed
\* only after login and build succeeded, and the remote host is touched only
\* after the push succeeded
C26_RemoteOrder ==
  /\ Len(rmSteps) <= Len(RemoteOrder)
  /\ rmSteps = SubSeq(RemoteOrder, 1, Len(rmSteps))
  /\ rmErr \in {"login", "build", "push"} =>
       /\ rmPc = "returned"
       /\ rmSteps[Len(rmSteps)] = rmErr
  /\ ("push" \in Range(rmSteps) \/ pushed) => (loggedIn /\ built)
  /\ RemoteTouched => pushed

\* the whole remote flow has run and the deploy script has brought up the
\* freshly copied files
C26_Witness ==
  /\ rmPc = "returned"
  /\ rmErr = "none"
  /\ pushed
  /\ remoteRun = "fresh"

\* C27: a remote deployment in which the SSH connection, the creation of the
\* remote directory, a file copy, the chmod of the script or the deploy
\* script failed returns an error (on which the runner fails the deployment
\* and attempts the rollback)
C27_RemoteFailureFails ==
  (rmPc = "returned" /\ (rmDropped # {} \/ rmErr \in {"ssh", "deploy"})) => rmErr # "none"

\* State and Health of a service that passes the health check
PassingInfos == {<<"running", "">>, <<"running", "healthy">>}

\* State and Health of a service that must fail the health check at once
FailingInfos == {<<"running", "unhealthy">>, <<"exited", "">>, <<"dead", "">>}

\* C28: the health poll ends with the deployment reported healthy only at a
\* poll whose ps output shows every expected service running with health
\* healthy or empty
C28_HealthyOnlyWhenAllPass ==
  [][(dcPc \in {"poll", "check"} /\ dcPc' = "returned" /\ dcErr' = "none") =>
       /\ dcPc = "check"
       /\ \A srv \in expected : psInfo[srv] \in PassingInfos]_vars

\* the health check of a deployment with every service expected has
\* reported it healthy after more than one poll
C28_Witness ==
  /\ dcPc = "returned"
  /\ dcErr = "none"
  /\ expected = HealthServices
  /\ polls > 1

\* C29: a poll whose ps output shows an expected service unhealthy, exited
\* or dead ends the health check with an error at that poll
C29_FailsAtOnce ==
  [][(dcPc = "check" /\ \E srv \in expected : psInfo[srv] \in FailingInfos) =>
       (dcPc' = "returned" /\ dcErr' \in {"unhealthy", "stopped"})]_vars

\* C30: when the rollback re-invokes the deployment engine, the line
\* === ROLLBACK STARTED === is in the deployment log of the pipeline, after
\* every line of the failed attempt and before every line of the rollback
\* deployment
C30_RollbackDelimiter ==
  /\ (rbPc = "rollback" \/ "rollback" \in Range(rbLog)) => RollbackStarted \in Range(rbLog)
  /\ \A i, k \in DOMAIN rbLog :
       i < k => /\ ~(rbLog[i] = RollbackStarted /\ rbLog[k] = "attempt")
                /\ ~(rbLog[i] = "rollback" /\ rbLog[k] \in {RollbackStarted, "attempt"})

\* collectLogs has returned for a job that has a store and a record
Collected == logPc \in {"closed", "recorded"} /\ db /\ jobID > 0

\* C31: while a job's logs are collected the unflushed batch never holds more
\* than 10 lines, and when collection returns every line put in the batch
\* has been handed to the store.
C31_BatchBounded ==
  /\ Len(logBatch) <= BatchSize
  /\ Collected => Len(jobLogs) = Len(readLines)

C39_NoLogAfterTerminal ==
  [][(jobID > 0 /\ jobExit[jobID] # Nil) => jobLogs' = jobLogs]_vars

\* the exit status of a script entry run on its own
EntryExit(e) ==
  IF Len(e) = 1 \/ ExitStatus(e[1]) = 0 THEN ExitStatus(e[1]) ELSE ExitStatus(e[3])

\* the words of a script entry that run when the entry is run on its own
EntryRuns(e) == {1} \cup (IF Len(e) = 3 /\ ExitStatus(e[1]) # 0 THEN {3} ELSE {})

\* the index in cmdString of the word in front of entry i
RECURSIVE Offset(_)
Offset(i) == IF i = 1 THEN 0 ELSE Offset(i - 1) + Len(commands[i - 1]) + 1

\* the entries up to and including the first one that exits non-zero
Attempted ==
  {i \in DOMAIN commands : \A j \in 1..(i - 1) : EntryExit(commands[j]) = 0}

\* C33: for a job script [c1, ..., cn] the container runs the entries in
\* order, the first entry that exits non-zero prevents all remaining entries
\* from running, and that exit code is the container's exit code.
C33_FirstFailureStops ==
  shPc = "exited" =>
    /\ shRan = {Offset(i) + p : <<i, p>> \in
                  {<<i, p>> \in Attempted \X {1, 3} : p \in EntryRuns(commands[i])}}
    /\ shExit = (IF \E i \in Attempted : EntryExit(commands[i]) # 0
                 THEN EntryExit(commands[CHOOSE i \in Attempted : EntryExit(commands[i]) # 0])
                 ELSE 0)

C35_SuccessIffAllSucceeded ==
  pc = "done" =>
    /\ pipelineStatus[PipelineID] = "success"
         <=> /\ \A j \in JobNames : jobStatus[j] = "success"
             /\ deployStatus = "success"
    /\ deployStatus \in {"failed", "rolled_back"} => pipelineStatus[PipelineID] = "failed"
    /\ deployStatus = "success" => pipelineStatus[PipelineID] # "failed"

\* C36: when runs of different projects deploy remotely at the same time,
\* each run's compose push goes out with the registry user of its own
\* project, whatever logins of other runs happen between its login and its
\* push.
C36_OwnCredentials ==
  \A r \in RunIds : pushedAs[r] # Nil => pushedAs[r] = <<r>>

Recovered == {"outcome", "finalize", "return", "done"}

\* C38: the rollback is attempted at most once per run: whether the rollback
\* deployment fails or not the run goes on to record the outcome, and from
\* there on it neither deploys nor rolls back again, so that deployToEnv is
\* called at most twice.
C38_RollbackOnce ==
  [][/\ pc = "rollbackDeploy" => pc' \in Recovered
     /\ pc \in Recovered =>
          /\ pc' \in Recovered
          /\ rollbackSuccess' = rollbackSuccess]_vars

\* the rollback deployment has failed and the run has ended
C38_Witness ==
  /\ pc = "done"
  /\ deployErr
  /\ rollbackCommit # 0
  /\ ~rollbackSuccess
  /\ RollbackDir \in deferred

\* the lines of deployment d in the deployment log
LoggedOf(d) == Cardinality({i \in DOMAIN rbLog : rbLog[i] = d})

\* C40: when the streamed remote command has returned, every line it wrote
\* to stdout or stderr has been passed to the log callback: none is still
\* in the pipes, to be appended later, and none is lost.
C40_StreamDelivered ==
  \A d \in Deployments :
    d \notin Deploying =>
      /\ rbPiped[d] = 0
      /\ LoggedOf(d) >= rbWritten[d]

====
